---- MODULE Spec2Model ----
(***************************************************************************)
(* RORO Sentinel: the decision pipeline of roro_sentinel as a state        *)
(* machine.  Modelled: the orchestrator loop (main.py), the trade          *)
(* validator's confirmation state machine, the liquidation guard, the      *)
(* signal generator's priority fusion and the position sizer.              *)
(*                                                                         *)
(* Conventions                                                             *)
(*  - Python floats are modelled as exact rationals <<n, d>> in lowest     *)
(*    terms with d > 0; rounding error of binary floating point is not     *)
(*    modelled.                                                            *)
(*  - Data feed, broker account and wall clock are the environment: their  *)
(*    values are drawn from small sets and may change between two calls.   *)
(*    A clock read yields the environment clock `now`.  The validator,     *)
(*    the session manager and the divergence detector write the read as    *)
(*    datetime.now(datetime.UTC) with `datetime` the class, which has no   *)
(*    attribute UTC; the model takes the read as the aware clock read it   *)
(*    stands for (datetime.now(timezone.utc), as in the other modules),    *)
(*    so that the pipeline behind it can be examined.                      *)
(*  - Trade ids (uuid4()[:8]) are modelled as fresh numbers 1, 2, ...      *)
(***************************************************************************)
EXTENDS Integers, Sequences, FiniteSets, TLC

(***************************************************************************)
(* Rational arithmetic                                                     *)
(***************************************************************************)
RECURSIVE Gcd(_, _)
Gcd(a, b) ==
    IF b = 0 THEN a ELSE Gcd(b, a % b)

IAbs(x) ==
    IF x < 0 THEN -x ELSE x

RNorm(n, d) ==
    LET s == IF d < 0 THEN -1 ELSE 1
        g == Gcd(IAbs(n), IAbs(d))
    IN  <<(s * n) \div g, (s * d) \div g>>

R(n) ==
    <<n, 1>>

RMul(x, y) ==
    LET a == RNorm(x[1], y[2])
        b == RNorm(y[1], x[2])
    IN  RNorm(a[1] * b[1], a[2] * b[2])

RDiv(x, y) ==
    RMul(x, RNorm(y[2], y[1]))

RAdd(x, y) ==
    LET g == Gcd(x[2], y[2])
    IN  RNorm(x[1] * (y[2] \div g) + y[1] * (x[2] \div g), (x[2] \div g) * y[2])

RSub(x, y) ==
    RAdd(x, <<-y[1], y[2]>>)

RLt(x, y) ==
    RSub(x, y)[1] < 0

RLe(x, y) ==
    RSub(x, y)[1] <= 0

RAbs(x) ==
    <<IAbs(x[1]), x[2]>>

RMin(x, y) ==
    IF RLe(x, y) THEN x ELSE y

Zero ==
    R(0)

One ==
    R(1)


(***************************************************************************)
(* Configuration (the values of the test fixture of the position sizer;    *)
(* system.mode, execution.require_manual_confirmation and                  *)
(* execution.confirmation_timeout_seconds are chosen in Init)              *)
(***************************************************************************)
max_daily_risk_percent ==
    R(3)

max_per_trade_risk_percent ==
    <<9, 5>>

divergence_penalty ==
    <<1, 2>>

max_leverage ==
    R(30)

swap_cost_threshold ==
    R(-10)

Instruments ==
    {"US500", "DAX", "ALL"}

\* swap_rates.get(instrument, -0.03), annualized
SwapRate(instrument) ==
    CASE instrument = "US500" -> <<-3, 100>>
      [] instrument = "USDJPY" -> <<-2, 100>>
      [] instrument = "DAX" -> <<-35, 1000>>
      [] instrument = "NAS100" -> <<-3, 100>>
      [] OTHER -> <<-3, 100>>

(***************************************************************************)
(* Position sizer (risk/position_sizer.py)                                 *)
(***************************************************************************)
\* fault: the rejected position keeps one contract
_create_zero_position_one_contract(reason) ==
    [risk_amount |-> Zero, position_size |-> One, margin_required |-> Zero,
     swap_cost |-> Zero, leverage_used |-> Zero, reasoning |-> <<reason>>]

_create_zero_position(reason) ==
    [risk_amount |-> Zero, position_size |-> Zero, margin_required |-> Zero,
     swap_cost |-> Zero, leverage_used |-> Zero, reasoning |-> <<reason>>]

_project_overnight_cost(instrument, position_value) ==
    RMul(position_value, RDiv(SwapRate(instrument), R(365)))

\* The running values of calculate_position_size are threaded through its
\* numbered steps as a record; exhausted: step 9 returned the zero position.

\* 1. BASE RISK AMOUNT
BaseRisk(account_equity) ==
    [base_risk |-> RMul(account_equity, RDiv(max_per_trade_risk_percent, R(100))),
     position_value |-> Zero, margin_required |-> Zero, swap_cost |-> Zero,
     exhausted |-> FALSE, reasoning |-> <<>>]

\* fault: a low confidence is noted but the risk is not halved
ConfidenceAdjustment_noted(s, signal_confidence) ==
    IF RLt(signal_confidence, <<65, 100>>)
    THEN [s EXCEPT !.reasoning = Append(@, "Low confidence")]
    ELSE s

\* 2. SIGNAL CONFIDENCE ADJUSTMENT
ConfidenceAdjustment(s, signal_confidence) ==
    IF RLt(signal_confidence, <<65, 100>>)
    THEN [s EXCEPT !.base_risk = RMul(@, <<1, 2>>),
                   !.reasoning = Append(@, "Low confidence")]
    ELSE s

\* 3. REGIME ADJUSTMENT
RegimeAdjustment(s, regime_score) ==
    LET regime_adjustment == RMin(One, RDiv(RAbs(regime_score), R(2)))
    IN  IF RLt(regime_adjustment, One)
        THEN [s EXCEPT !.base_risk = RMul(@, regime_adjustment),
                       !.reasoning = Append(@, "Regime adjustment")]
        ELSE s

\* 4. POSITION SIZE MULTIPLIER (from signal)
SignalMultiplier(s, position_size_multiplier) ==
    [s EXCEPT !.base_risk = RMul(@, position_size_multiplier),
              !.reasoning = IF RLt(position_size_multiplier, One)
                            THEN Append(@, "Signal multiplier")
                            ELSE @]

\* fault: the penalty is noted but not applied
DivergencePenalty_noted(s, flagged) ==
    IF flagged
    THEN [s EXCEPT !.reasoning = Append(@, "Divergence penalty")]
    ELSE s

\* 5. DIVERGENCE PENALTY (if applicable)
DivergencePenalty(s, flagged) ==
    IF flagged
    THEN [s EXCEPT !.base_risk = RMul(@, divergence_penalty),
                   !.reasoning = Append(@, "Divergence penalty")]
    ELSE s

\* 6. CALCULATE POSITION SIZE (stop_distance is not zero)
PositionValue(s, entry_price, stop_distance) ==
    [s EXCEPT !.position_value = RDiv(s.base_risk, RDiv(stop_distance, entry_price))]

\* 7. CFD-SPECIFIC: SWAP COST PROJECTION
SwapCostProjection(s, instrument) ==
    LET swap_cost == _project_overnight_cost(instrument, s.position_value)
    IN  IF RLt(swap_cost, swap_cost_threshold)
        THEN [s EXCEPT !.base_risk = RMul(@, <<7, 10>>),
                       !.position_value = RMul(@, <<7, 10>>),
                       !.swap_cost = swap_cost,
                       !.reasoning = Append(@, "Swap cost penalty")]
        ELSE [s EXCEPT !.swap_cost = swap_cost]

\* fault: the margin is computed but never limited
MarginCheck_unlimited(s, account_equity) ==
    [s EXCEPT !.margin_required = RDiv(s.position_value, max_leverage)]

\* 8. LEVERAGE & MARGIN CHECK
MarginCheck(s, account_equity) ==
    LET margin_required == RDiv(s.position_value, max_leverage)
        limit == RMul(account_equity, <<7, 10>>)
    IN  IF RLt(limit, margin_required)
        THEN LET scaling_factor == RDiv(limit, margin_required)
             IN  [s EXCEPT !.base_risk = RMul(@, scaling_factor),
                           !.position_value = RMul(@, scaling_factor),
                           !.margin_required =
                               RDiv(RMul(s.position_value, scaling_factor), max_leverage),
                           !.reasoning = Append(@, "Margin limit")]
        ELSE [s EXCEPT !.margin_required = margin_required]

\* 9. DAILY RISK CAP
DailyRiskCap(s, today_used, account_equity) ==
    LET max_daily_risk == RMul(account_equity, RDiv(max_daily_risk_percent, R(100)))
        available_risk == RSub(max_daily_risk, today_used)
    IN  IF RLt(max_daily_risk, RAdd(today_used, s.base_risk))
        THEN IF RLe(available_risk, Zero)
             THEN [s EXCEPT !.exhausted = TRUE]
             ELSE LET scaling_factor == RDiv(available_risk, s.base_risk)
                  IN  [s EXCEPT !.base_risk = available_risk,
                                !.position_value = RMul(@, scaling_factor),
                                !.margin_required =
                                    RDiv(RMul(s.position_value, scaling_factor),
                                         max_leverage),
                                !.reasoning = Append(@, "Daily risk cap")]
        ELSE s

\* 10. CALCULATE FINAL METRICS and the result
FinalMetrics(s, entry_price) ==
    IF s.exhausted
    THEN _create_zero_position("Daily risk limit reached")
    ELSE [risk_amount |-> s.base_risk,
          position_size |-> RDiv(s.position_value, entry_price),
          margin_required |-> s.margin_required,
          swap_cost |-> s.swap_cost,
          leverage_used |-> IF RLt(Zero, s.margin_required)
                            THEN RDiv(s.position_value, s.margin_required)
                            ELSE Zero,
          reasoning |-> IF s.reasoning = <<>> THEN <<"Full size">> ELSE s.reasoning]

\* today_used, active: the sizer's fields today_risk_used, active_divergences
calculate_position_size(today_used, active, account_equity, instrument, entry_price, stop_loss_price, signal_confidence, regime_score, position_size_multiplier) ==
    LET stop_distance == RAbs(RSub(entry_price, stop_loss_price))
    IN  IF stop_distance = Zero
        THEN _create_zero_position("Stop distance is zero")
        ELSE FinalMetrics(
                 DailyRiskCap(
                     MarginCheck(
                         SwapCostProjection(
                             PositionValue(
                                 DivergencePenalty(
                                     SignalMultiplier(
                                         RegimeAdjustment(
                                             ConfidenceAdjustment(
                                                 BaseRisk(account_equity),
                                                 signal_confidence),
                                             regime_score),
                                         position_size_multiplier),
                                     instrument \in active),
                                 entry_price, stop_distance),
                             instrument),
                         account_equity),
                     today_used, account_equity),
                 entry_price)

(***************************************************************************)
(* Signal generator (core/signal_generator.py)                             *)
(***************************************************************************)
None ==
    [none |-> TRUE]

RegimeTypes ==
    {"strong_risk_on", "weak_risk_on", "neutral", "weak_risk_off",
     "strong_risk_off", "unreliable", "data_error"}

significant_shifts ==
    {<<"strong_risk_on", "strong_risk_off">>,
     <<"strong_risk_off", "strong_risk_on">>,
     <<"weak_risk_on", "strong_risk_off">>,
     <<"weak_risk_off", "strong_risk_on">>}

_is_regime_shift(last, regime) ==
    IF last = None \/ last.regime = None
    THEN FALSE
    ELSE LET old_regime == last.regime.regime_type
             new_regime == regime.regime_type
         IN  \/ <<old_regime, new_regime>> \in significant_shifts
             \/ <<new_regime, old_regime>> \in significant_shifts

\* correlation_report.get("overall_health", "UNKNOWN")
OverallHealth(correlation_report) ==
    IF "overall_health" \in DOMAIN correlation_report
    THEN correlation_report.overall_health
    ELSE "UNKNOWN"

_generate_regime_shift_signal(regime, correlation_report) ==
    [id |-> "", signal_type |-> "close", instrument |-> "ALL", priority |-> "P0",
     confidence |-> <<19, 20>>, regime |-> regime, divergence |-> None,
     correlation_health |-> OverallHealth(correlation_report),
     suggested_entry |-> Zero, suggested_stop |-> Zero, suggested_target |-> Zero,
     position_size_multiplier |-> Zero, reasoning |-> "REGIME SHIFT DETECTED"]

\* fault: the confidence is boosted whether or not the divergence agrees
\* with the regime
_generate_divergence_signal_boosted(divergence, regime, correlation_report, price) ==
    LET bullish == divergence.type = "bullish"
    IN  [id |-> "",
         signal_type |-> IF bullish THEN "buy" ELSE "sell",
         instrument |-> divergence.instrument,
         priority |-> "P1",
         confidence |-> RMin(<<19, 20>>, RMul(divergence.confidence, <<6, 5>>)),
         regime |-> regime,
         divergence |-> divergence,
         correlation_health |-> OverallHealth(correlation_report),
         suggested_entry |-> price,
         suggested_stop |-> IF bullish THEN RMul(price, <<9975, 10000>>)
                            ELSE RMul(price, <<10025, 10000>>),
         suggested_target |-> IF bullish THEN RMul(price, <<1005, 1000>>)
                              ELSE RMul(price, <<995, 1000>>),
         position_size_multiplier |-> divergence_penalty,
         reasoning |-> "divergence detected"]

\* price: quote.price of divergence.instrument
_generate_divergence_signal(divergence, regime, correlation_report, price) ==
    LET bullish == divergence.type = "bullish"
        aligned ==
            \/ /\ divergence.type = "bullish"
               /\ regime.regime_type \in {"weak_risk_on", "strong_risk_on"}
            \/ /\ divergence.type = "bearish"
               /\ regime.regime_type \in {"weak_risk_off", "strong_risk_off"}
        boosted == IF aligned THEN RMul(divergence.confidence, <<6, 5>>)
                   ELSE divergence.confidence
    IN  [id |-> "",
         signal_type |-> IF bullish THEN "buy" ELSE "sell",
         instrument |-> divergence.instrument,
         priority |-> "P1",
         confidence |-> RMin(<<19, 20>>, boosted),
         regime |-> regime,
         divergence |-> divergence,
         correlation_health |-> OverallHealth(correlation_report),
         suggested_entry |-> price,
         suggested_stop |-> IF bullish THEN RMul(price, <<9975, 10000>>)
                            ELSE RMul(price, <<10025, 10000>>),
         suggested_target |-> IF bullish THEN RMul(price, <<1005, 1000>>)
                              ELSE RMul(price, <<995, 1000>>),
         position_size_multiplier |-> divergence_penalty,
         reasoning |-> "divergence detected"]

\* fault: a regime signal is sized in full instead of at 0.8
_generate_regime_signal_full_size(regime, correlation_report, price) ==
    LET on == regime.regime_type = "strong_risk_on"
    IN  [id |-> "",
         signal_type |-> IF on THEN "buy" ELSE "sell",
         instrument |-> "US500",
         priority |-> "P2",
         confidence |-> regime.confidence,
         regime |-> regime,
         divergence |-> None,
         correlation_health |-> OverallHealth(correlation_report),
         suggested_entry |-> price,
         suggested_stop |-> IF on THEN RMul(price, <<997, 1000>>)
                            ELSE RMul(price, <<1003, 1000>>),
         suggested_target |-> IF on THEN RMul(price, <<101, 100>>)
                              ELSE RMul(price, <<99, 100>>),
         position_size_multiplier |-> One,
         reasoning |-> "Strong regime"]

\* price: quote.price of US500
_generate_regime_signal(regime, correlation_report, price) ==
    LET on == regime.regime_type = "strong_risk_on"
    IN  [id |-> "",
         signal_type |-> IF on THEN "buy" ELSE "sell",
         instrument |-> "US500",
         priority |-> "P2",
         confidence |-> regime.confidence,
         regime |-> regime,
         divergence |-> None,
         correlation_health |-> OverallHealth(correlation_report),
         suggested_entry |-> price,
         suggested_stop |-> IF on THEN RMul(price, <<997, 1000>>)
                            ELSE RMul(price, <<1003, 1000>>),
         suggested_target |-> IF on THEN RMul(price, <<101, 100>>)
                              ELSE RMul(price, <<99, 100>>),
         position_size_multiplier |-> <<4, 5>>,
         reasoning |-> "Strong regime"]

NoTradeSignal(regime, correlation_report) ==
    [id |-> "", signal_type |-> "no_trade", instrument |-> "US500", priority |-> "P3",
     confidence |-> Zero, regime |-> regime, divergence |-> None,
     correlation_health |-> OverallHealth(correlation_report),
     suggested_entry |-> Zero, suggested_stop |-> Zero, suggested_target |-> Zero,
     position_size_multiplier |-> Zero, reasoning |-> "No high-probability setup detected"]

\* max(divergences, key=lambda d: d.confidence): the first of the maximal ones
BestDivergence(divergences) ==
    LET i == CHOOSE k \in 1..Len(divergences) :
                 /\ \A j \in 1..Len(divergences) :
                        RLe(divergences[j].confidence, divergences[k].confidence)
                 /\ \A j \in 1..(k - 1) :
                        RLt(divergences[j].confidence, divergences[k].confidence)
    IN  divergences[i]

\* last: the generator's field last_signal; the other arguments are what the
\* three engines and the data feed returned in this call
generate_signal(last, regime, correlation_healthy, correlation_report, divergences, price) ==
    IF _is_regime_shift(last, regime)
    THEN _generate_regime_shift_signal(regime, correlation_report)
    ELSE IF /\ divergences # <<>>
            /\ correlation_healthy
            /\ RLt(<<65, 100>>, BestDivergence(divergences).confidence)
    THEN _generate_divergence_signal(BestDivergence(divergences), regime,
                                     correlation_report, price)
    ELSE IF /\ regime.regime_type \in {"strong_risk_on", "strong_risk_off"}
            /\ correlation_healthy
            /\ RLt(<<7, 10>>, regime.confidence)
    THEN _generate_regime_signal(regime, correlation_report, price)
    ELSE NoTradeSignal(regime, correlation_report)

(***************************************************************************)
(* Session manager (core/session_manager.py); t: minutes since 00:00 UTC   *)
(***************************************************************************)
get_current_session(t) ==
    IF t < 8 * 60 THEN "ASIAN"
    ELSE IF t < 13 * 60 THEN "EUROPEAN"
    ELSE IF t < 16 * 60 THEN "US_OVERLAP"
    ELSE IF t < 21 * 60 THEN "US_ONLY"
    ELSE "CLOSED"

is_position_closure_required(t) ==
    \/ get_current_session(t) = "US_ONLY" /\ t >= 20 * 60 + 55
    \/ get_current_session(t) = "CLOSED"

should_allow_new_positions(t) ==
    /\ get_current_session(t) # "CLOSED"
    /\ ~is_position_closure_required(t)

(***************************************************************************)
(* Liquidation guard (risk/liquidation_guard.py)                           *)
(***************************************************************************)
\* float('inf')
Inf ==
    <<1, 0>>

\* ratio < bound, for a ratio that may be +infinity
RatioLt(ratio, bound) ==
    ratio # Inf /\ RLt(ratio, bound)

\* account.positions_value: sum of abs(quantity * current_price) over the
\* open positions; account.has_positions: the position list is not empty
_calculate_liquidation_distance(account) ==
    IF ~account.has_positions \/ account.margin_used = Zero
    THEN R(100)
    ELSE LET buffer == RSub(account.equity, account.maintenance_margin)
         IN  IF RLe(buffer, Zero) THEN Zero
             ELSE IF account.positions_value = Zero THEN R(100)
             ELSE RMul(RDiv(buffer, account.positions_value), R(100))

\* fault: the CRITICAL rung compares with <=, so a ratio of exactly 1.25
\* is CRITICAL
MarginLevelOf_inclusive(margin_ratio) ==
    IF margin_ratio # Inf /\ RLe(margin_ratio, <<5, 4>>) THEN "critical"
    ELSE IF RatioLt(margin_ratio, <<3, 2>>) THEN "danger"
    ELSE IF RatioLt(margin_ratio, <<7, 4>>) THEN "warning"
    ELSE IF RatioLt(margin_ratio, <<5, 2>>) THEN "monitor"
    ELSE "safe"

MarginLevelOf(margin_ratio) ==
    IF RatioLt(margin_ratio, <<5, 4>>) THEN "critical"
    ELSE IF RatioLt(margin_ratio, <<3, 2>>) THEN "danger"
    ELSE IF RatioLt(margin_ratio, <<7, 4>>) THEN "warning"
    ELSE IF RatioLt(margin_ratio, <<5, 2>>) THEN "monitor"
    ELSE "safe"

ActionRequired(level) ==
    CASE level = "critical" -> "LIQUIDATE_NOW"
      [] level = "danger" -> "IMMEDIATE_REDUCTION"
      [] level = "warning" -> "STOP_NEW_ENTRIES"
      [] level = "monitor" -> "MONITOR"
      [] OTHER -> "NONE"

\* account: what broker_api.get_account_summary() and get_positions() return
check_margin_safety(account) ==
    LET margin_ratio == IF RLt(Zero, account.margin_used)
                        THEN RDiv(account.equity, account.margin_used)
                        ELSE Inf
        level == MarginLevelOf(margin_ratio)
    IN  [level |-> level,
         margin_ratio |-> margin_ratio,
         equity |-> account.equity,
         margin_used |-> account.margin_used,
         maintenance_margin |-> account.maintenance_margin,
         max_adverse_move_percent |-> _calculate_liquidation_distance(account),
         action_required |-> ActionRequired(level)]

\* fault: the WARNING rung ("no new entries") still admits a new position
should_allow_new_position_warning(account) ==
    check_margin_safety(account).level \in {"safe", "monitor", "warning"}

should_allow_new_position(account) ==
    check_margin_safety(account).level \in {"safe", "monitor"}

(***************************************************************************)
(* Bounds and input sets                                                   *)
(***************************************************************************)
\* trade ids issued in one run
MaxTrades ==
    3

\* largest configured confirmation timeout (seconds)
MaxTimeout ==
    6

\* asyncio.sleep(5) of the simulated confirmation in paper mode
PaperDelay ==
    5

Timeouts ==
    {1, MaxTimeout}

Configs ==
    [mode : {"paper", "live"},
     require_manual_confirmation : BOOLEAN,
     confirmation_timeout_seconds : Timeouts]

\* clock readings: 03:00, 10:00, 20:55 and 21:30 UTC
TimePoints ==
    {180, 600, 1255, 1290}

Account(margin_used) ==
    [equity |-> R(100000),
     margin_used |-> R(margin_used),
     maintenance_margin |-> RMul(R(margin_used), <<1, 2>>),
     has_positions |-> margin_used > 0,
     positions_value |-> R(margin_used * 30)]

\* account summaries with margin ratio inf, 2, 5/3, 5/4 and 1
Accounts ==
    {Account(m) : m \in {0, 50000, 60000, 80000, 100000}}

Regime(type, score, confidence) ==
    [regime_type |-> type, score |-> score, confidence |-> confidence]

Divergence(type, instrument, confidence) ==
    [type |-> type, instrument |-> instrument, confidence |-> confidence]

\* what the engines hand to the orchestrator's generate_signal
MainRegimes ==
    {Regime("strong_risk_on", R(3), <<4, 5>>),
     Regime("weak_risk_on", R(2), <<4, 5>>),
     Regime("neutral", R(0), <<4, 5>>)}

MainDivergences ==
    {<<>>, <<Divergence("bullish", "US500", <<4, 5>>)>>}

Prices ==
    {R(4500)}

VARIABLES
    config,             \* system.mode and the execution section of the settings
    now,                \* the latest clock reading (minutes since 00:00 UTC)
    pc,                 \* position of _main_loop / _process_signal
    running,            \* ROROSentinel.running
    session_info,       \* get_session_info()['current_session'] of this iteration
    margin_status,      \* _main_loop's margin_status
    signal,             \* the TradeSignal of this iteration
    account,            \* _process_signal's account (get_account_summary, line 206)
    allow_status,       \* the MarginStatus computed inside should_allow_new_position
    confirmation,       \* _process_signal's confirmation
    position_result,    \* _process_signal's position_result
    steps,              \* the steps taken in this iteration, in order
    exec_level,         \* margin level of the account at this iteration's execution step
    risk_executed,      \* sum of the risk amounts that reached the execution step
    last_signal,        \* SignalGenerator.last_signal
    prev_signal,        \* the signal the previous direct generate_signal call returned
    signal_args,        \* what the engines returned in the latest direct call
    today_risk_used,    \* CFDRiskCalculator.today_risk_used
    active_divergences, \* CFDRiskCalculator.active_divergences
    sizing,             \* arguments and result of the latest direct sizing call
    vpc,                \* position of request_confirmation
    next_id,            \* the next fresh trade id
    trade_id,           \* request_confirmation's trade_id
    elapsed,            \* seconds since the confirmation wait began
    pending_trades,     \* TradeValidator.pending_trades
    confirmations,      \* TradeValidator.confirmations
    today_losses,       \* TradeValidator.today_losses
    today_loss_amount,  \* TradeValidator.today_loss_amount
    response,           \* the ConfirmationResponse of the latest call
    published,          \* alerts published by the latest request_confirmation
    confirm_seen,       \* confirm_trade(trade_id, True) came while trade_id was pending
    scan_pos,           \* position of scan_divergences: 0 not called, 1 core,
                        \* 2..4 the satellites, 5 returned
    signals,            \* scan_divergences' list signals
    scan_log,           \* what the checks and filters of this scan found
    regime_args,        \* what the latest analyze_regime met in the feed
    regime_result,      \* what the latest analyze_regime returned
    last_regime,        \* RegimeEngine.last_regime
    primary_gauges,     \* config['instruments']['primary_gauges']: symbol -> weight
    data_feed,          \* the feed create_data_feed returned: its class
    connected,          \* IBKRDataFeed._connected
    connect_pc,         \* position of the task _connect_with_retry
    attempt,            \* connection attempts made
    backoff,            \* seconds left of asyncio.sleep(5) between attempts
    fetched,            \* outcome of the latest get_history on data_feed
    broker_calls,       \* the BrokerAPI methods the core has called
    fatal_error,        \* the upstream call whose exception ended _main_loop
    correlation_history,    \* CorrelationMonitor.correlation_history
    margin_history,     \* LiquidationGuard.margin_history
    alert_history,      \* AlertPublisher.alert_history
    monitor_cycles,     \* the check_correlation_health calls made so far
    appended,           \* the entries ever appended to each of the histories
    core_args,          \* the data of the latest _check_spx_usdjpy_divergence call
    core_result         \* what that call returned

envVars ==
    <<config, now>>

mainVars ==
    <<pc, running, session_info, margin_status, signal, account, allow_status,
      confirmation, position_result, steps, exec_level, risk_executed>>

signalVars ==
    <<last_signal, prev_signal, signal_args>>

sizerVars ==
    <<today_risk_used, active_divergences, sizing>>

callVars ==
    <<vpc, next_id, trade_id, elapsed, response, published, confirm_seen>>

validatorVars ==
    <<pending_trades, confirmations, today_losses, today_loss_amount>>

scanVars ==
    <<scan_pos, signals, scan_log>>

regimeVars ==
    <<regime_args, regime_result, last_regime, primary_gauges>>

feedVars ==
    <<data_feed, connected, connect_pc, attempt, backoff, fetched>>

brokerVars ==
    <<broker_calls>>

faultVars ==
    <<fatal_error>>

historyVars ==
    <<correlation_history, margin_history, alert_history, monitor_cycles, appended>>

coreVars ==
    <<core_args, core_result>>

engineVars ==
    <<regimeVars, feedVars, brokerVars, faultVars, historyVars, coreVars>>

vars ==
    <<envVars, mainVars, signalVars, sizerVars, engineVars, scanVars, callVars,
      validatorVars>>

\* the state after construction, the three histories apart
InitComponents ==
    /\ config \in Configs
    /\ now \in TimePoints
    /\ pc = "start"
    /\ running = TRUE
    /\ session_info = None
    /\ margin_status = None
    /\ signal = None
    /\ account = None
    /\ allow_status = None
    /\ confirmation = None
    /\ position_result = None
    /\ steps = <<>>
    /\ exec_level = "none"
    /\ risk_executed = Zero
    /\ last_signal = None
    /\ prev_signal = None
    /\ signal_args = None
    /\ today_risk_used = Zero
    /\ active_divergences = {}
    /\ sizing = None
    /\ vpc = "idle"
    /\ next_id = 1
    /\ trade_id = 0
    /\ elapsed = 0
    /\ pending_trades = <<>>
    /\ confirmations = <<>>
    /\ today_losses = <<>>
    /\ today_loss_amount = Zero
    /\ response = None
    /\ published = <<>>
    /\ confirm_seen = FALSE
    /\ scan_pos = 0
    /\ signals = <<>>
    /\ scan_log = <<>>
    /\ regime_args = None
    /\ regime_result = None
    /\ last_regime = None
    /\ data_feed = "none"
    /\ connected = FALSE
    /\ connect_pc = "none"
    /\ attempt = 0
    /\ backoff = 0
    /\ fetched = "none"
    /\ broker_calls = {}
    /\ fatal_error = "none"
    /\ monitor_cycles = 0
    /\ core_args = None
    /\ core_result = None

\* correlation_monitor.py 48, liquidation_guard.py 47, alert_publisher.py 163
EmptyHistories ==
    /\ correlation_history = <<>>
    /\ margin_history = <<>>
    /\ alert_history = <<>>
    /\ appended = [correlation |-> 0, margin |-> 0, alert |-> 0]

\* the primary_gauges of tests/test_regime_engine.py
TestGauges ==
    [US500 |-> <<35, 100>>, USDJPY |-> <<3, 10>>, VIX |-> <<1, 5>>, US10Y |-> <<1, 10>>]

FixtureGauges ==
    primary_gauges = TestGauges

Init ==
    InitComponents /\ EmptyHistories /\ FixtureGauges

(***************************************************************************)
(* Trade validator (execution/trade_validator.py)                          *)
(***************************************************************************)
Alert(severity, header, requires_acknowledgment) ==
    [severity |-> severity, header |-> header,
     requires_acknowledgment |-> requires_acknowledgment]

\* format_p1_divergence / format_p2_regime_signal
TradeAlert(sig) ==
    IF sig.divergence # None
    THEN Alert("P1", "DIVERGENCE", TRUE)
    ELSE Alert("P2", "Signal - Regime Based", TRUE)

\* timestamps in minutes; the cutoff is `minutes` before the clock reading t
_count_recent_losses(losses, t, minutes) ==
    Cardinality({i \in 1..Len(losses) : losses[i].timestamp > t - minutes})

\* fault: the cool-down starts only after the fourth loss
_check_trader_readiness_late(losses, loss_amount, t) ==
    LET recent_losses == _count_recent_losses(losses, t, 60)
        max_daily_loss == max_daily_risk_percent
        current_hour == t \div 60
    IN  IF recent_losses > 3
        THEN [ready |-> FALSE,
              alerts |-> <<Alert("P3", "TRADING SUSPENDED", FALSE)>>]
        ELSE IF RLt(RMul(max_daily_loss, <<7, 10>>), loss_amount)
        THEN [ready |-> TRUE,
              alerts |-> <<Alert("P3", "DAILY LOSS LIMIT APPROACHING", FALSE)>>]
        ELSE IF 0 <= current_hour /\ current_hour < 5
        THEN [ready |-> FALSE, alerts |-> <<>>]
        ELSE [ready |-> TRUE, alerts |-> <<>>]

\* the result and the status alerts the check publishes
_check_trader_readiness(losses, loss_amount, t) ==
    LET recent_losses == _count_recent_losses(losses, t, 60)
        max_daily_loss == max_daily_risk_percent
        current_hour == t \div 60
    IN  IF recent_losses >= 3
        THEN [ready |-> FALSE,
              alerts |-> <<Alert("P3", "TRADING SUSPENDED", FALSE)>>]
        ELSE IF RLt(RMul(max_daily_loss, <<7, 10>>), loss_amount)
        THEN [ready |-> TRUE,
              alerts |-> <<Alert("P3", "DAILY LOSS LIMIT APPROACHING", FALSE)>>]
        ELSE IF 0 <= current_hour /\ current_hour < 5
        THEN [ready |-> FALSE, alerts |-> <<>>]
        ELSE [ready |-> TRUE, alerts |-> <<>>]

ConfirmationResponse(id, confirmed, reason) ==
    [trade_id |-> id, confirmed |-> confirmed, reason |-> reason]

\* pending_trades without the entry of id
Without(f, id) ==
    [k \in DOMAIN f \ {id} |-> f[k]]

\* fault: the trade alert is published before the readiness check is looked at
RequestConfirmationBegin_alert_first(sig, t) ==
    LET readiness == _check_trader_readiness(today_losses, today_loss_amount, t)
    IN  /\ vpc = "idle"
        /\ next_id <= MaxTrades
        /\ trade_id' = next_id
        /\ next_id' = next_id + 1
        /\ elapsed' = 0
        /\ confirm_seen' = FALSE
        /\ IF ~readiness.ready
           THEN /\ response' = ConfirmationResponse(next_id, FALSE, "Trader not ready")
                /\ published' = readiness.alerts \o <<TradeAlert(sig)>>
                /\ vpc' = "done"
                /\ UNCHANGED pending_trades
           ELSE IF ~config.require_manual_confirmation
           THEN /\ response' = ConfirmationResponse(next_id, TRUE, "Auto-confirmed")
                /\ published' = readiness.alerts \o <<TradeAlert(sig)>>
                /\ vpc' = "done"
                /\ UNCHANGED pending_trades
           ELSE /\ pending_trades' =
                       (next_id :> [signal |-> sig, timestamp |-> t]) @@ pending_trades
                /\ published' = readiness.alerts \o <<TradeAlert(sig)>>
                /\ response' = None
                /\ vpc' = "wait_start"
        /\ UNCHANGED <<confirmations, today_losses, today_loss_amount>>

\* request_confirmation up to its first wait: id, readiness check, alert,
\* auto-confirmation or registration as pending.  sig: the signal (its id
\* already set), t: the clock reading
RequestConfirmationBegin(sig, t) ==
    LET readiness == _check_trader_readiness(today_losses, today_loss_amount, t)
    IN  /\ vpc = "idle"
        /\ next_id <= MaxTrades
        /\ trade_id' = next_id
        /\ next_id' = next_id + 1
        /\ elapsed' = 0
        /\ confirm_seen' = FALSE
        /\ IF ~readiness.ready
           THEN /\ response' = ConfirmationResponse(next_id, FALSE, "Trader not ready")
                /\ published' = readiness.alerts
                /\ vpc' = "done"
                /\ UNCHANGED pending_trades
           ELSE IF ~config.require_manual_confirmation
           THEN /\ response' = ConfirmationResponse(next_id, TRUE, "Auto-confirmed")
                /\ published' = readiness.alerts \o <<TradeAlert(sig)>>
                /\ vpc' = "done"
                /\ UNCHANGED pending_trades
           ELSE /\ pending_trades' =
                       (next_id :> [signal |-> sig, timestamp |-> t]) @@ pending_trades
                /\ published' = readiness.alerts \o <<TradeAlert(sig)>>
                /\ response' = None
                /\ vpc' = "wait_start"
        /\ UNCHANGED <<confirmations, today_losses, today_loss_amount>>

\* fault: the clean-up of lines 98-99 is left out
FinishWait_no_cleanup(confirmed) ==
    /\ pending_trades' = pending_trades
    /\ response' = ConfirmationResponse(trade_id, confirmed,
                       IF confirmed THEN "Manual confirmation"
                       ELSE "Timeout or rejection")
    /\ vpc' = "done"

\* the end of request_confirmation after the wait: clean up, build the response
FinishWait(confirmed) ==
    /\ pending_trades' = Without(pending_trades, trade_id)
    /\ response' = ConfirmationResponse(trade_id, confirmed,
                       IF confirmed THEN "Manual confirmation"
                       ELSE "Timeout or rejection")
    /\ vpc' = "done"

\* fault: a trade answered before the wait starts stays registered
WaitStart_registered ==
    /\ vpc = "wait_start"
    /\ IF trade_id \in DOMAIN confirmations
       THEN FinishWait_no_cleanup(confirmations[trade_id])
       ELSE /\ vpc' = "waiting"
            /\ UNCHANGED <<pending_trades, response>>
    /\ UNCHANGED <<envVars, mainVars, signalVars, sizerVars, engineVars, scanVars>>
    /\ UNCHANGED <<next_id, trade_id, elapsed, published, confirm_seen>>
    /\ UNCHANGED <<confirmations, today_losses, today_loss_amount>>

\* _wait_for_confirmation starts: "Check if already confirmed"
WaitStart ==
    /\ vpc = "wait_start"
    /\ IF trade_id \in DOMAIN confirmations
       THEN FinishWait(confirmations[trade_id])
       ELSE /\ vpc' = "waiting"
            /\ UNCHANGED <<pending_trades, response>>
    /\ UNCHANGED <<envVars, mainVars, signalVars, sizerVars, engineVars, scanVars>>
    /\ UNCHANGED <<next_id, trade_id, elapsed, published, confirm_seen>>
    /\ UNCHANGED <<confirmations, today_losses, today_loss_amount>>

\* fault: the simulated confirmation of paper mode is given in every mode
WaitOutcome_simulated(cfg, seconds, confs, id) ==
    IF seconds >= cfg.confirmation_timeout_seconds
    THEN "timeout"
    ELSE IF seconds = PaperDelay THEN "yes" ELSE "wait"

\* What the wait does when `seconds` seconds have passed: "timeout" (wait_for
\* raises TimeoutError), "yes" / "no" (_wait_for_confirmation returns True /
\* False) or "wait".  asyncio.wait_for armed its timeout before
\* _wait_for_confirmation went to sleep, so at the deadline the timeout fires
\* before the sleeper wakes up.
WaitOutcome(cfg, seconds, confs, id) ==
    IF seconds >= cfg.confirmation_timeout_seconds
    THEN "timeout"
    ELSE IF cfg.mode = "paper"
    THEN IF seconds = PaperDelay THEN "yes" ELSE "wait"
    ELSE IF id \in DOMAIN confs
    THEN IF confs[id] THEN "yes" ELSE "no"
    ELSE "wait"

\* fault: the wait is not timed, no second counts against the timeout
Tick_untimed ==
    /\ vpc = "waiting"
    /\ elapsed' = elapsed
    /\ LET outcome == WaitOutcome(config, elapsed, confirmations, trade_id)
       IN  IF outcome = "wait"
           THEN UNCHANGED <<pending_trades, response, vpc>>
           ELSE FinishWait(outcome = "yes")
    /\ UNCHANGED <<envVars, mainVars, signalVars, sizerVars, engineVars, scanVars>>
    /\ UNCHANGED <<next_id, trade_id, published, confirm_seen>>
    /\ UNCHANGED <<confirmations, today_losses, today_loss_amount>>

\* one second of the wait passes
Tick ==
    /\ vpc = "waiting"
    /\ elapsed' = elapsed + 1
    /\ LET outcome == WaitOutcome(config, elapsed + 1, confirmations, trade_id)
       IN  IF outcome = "wait"
           THEN UNCHANGED <<pending_trades, response, vpc>>
           ELSE FinishWait(outcome = "yes")
    /\ UNCHANGED <<envVars, mainVars, signalVars, sizerVars, engineVars, scanVars>>
    /\ UNCHANGED <<next_id, trade_id, published, confirm_seen>>
    /\ UNCHANGED <<confirmations, today_losses, today_loss_amount>>

\* confirm_trade(id, confirmed), called from outside
confirm_trade(id, confirmed) ==
    /\ confirmations' = (id :> confirmed) @@ confirmations
    /\ confirm_seen' =
           IF confirmed /\ id = trade_id /\ id \in DOMAIN pending_trades
           THEN TRUE
           ELSE confirm_seen
    /\ UNCHANGED <<pending_trades, today_losses, today_loss_amount>>
    /\ UNCHANGED <<envVars, mainVars, signalVars, sizerVars, engineVars, scanVars>>
    /\ UNCHANGED <<vpc, next_id, trade_id, elapsed, response, published>>

\* the operator answers a trade listed by get_pending_trades()
ConfirmPending ==
    \E id \in DOMAIN pending_trades, confirmed \in BOOLEAN :
        /\ IF id \in DOMAIN confirmations THEN confirmations[id] # confirmed ELSE TRUE
        /\ confirm_trade(id, confirmed)

(***************************************************************************)
(* Orchestrator (main.py): _main_loop and _process_signal                  *)
(***************************************************************************)
\* the variables of one iteration that a step leaves alone
IterLocals ==
    <<session_info, margin_status, signal, account, allow_status,
      confirmation, position_result>>

\* a step of the loop that calls the given BrokerAPI methods
BrokerCalled(calls) ==
    /\ broker_calls' = broker_calls \cup calls
    /\ UNCHANGED <<regimeVars, feedVars, faultVars, historyVars, coreVars>>

\* main.py 175-178: an exception raised inside the loop body reaches
\* "except Exception", is logged as fatal, _shutdown runs and the loop is over
MainLoopFatal(call) ==
    /\ fatal_error' = call
    /\ running' = FALSE
    /\ pc' = "stopped"
    /\ UNCHANGED <<envVars, IterLocals, steps, exec_level, risk_executed>>
    /\ UNCHANGED <<signalVars, sizerVars, scanVars, callVars, validatorVars>>
    /\ UNCHANGED <<regimeVars, feedVars, historyVars, coreVars>>

\* liquidation_guard.py 55-69: check_margin_safety awaits get_account_summary
\* and then get_positions outside any try block
MarginCallRaises ==
    \E call \in {"get_account_summary", "get_positions"} :
        /\ broker_calls' = broker_calls \cup
               (IF call = "get_positions"
                THEN {"get_account_summary", "get_positions"}
                ELSE {"get_account_summary"})
        /\ MainLoopFatal(call)

\* main.py 126-134: next iteration, 1. CHECK SESSION
IterStart ==
    /\ pc = "start"
    /\ running
    /\ next_id <= MaxTrades
    /\ \E t \in TimePoints :
           /\ t >= now
           /\ now' = t
           /\ session_info' = get_current_session(t)
    /\ margin_status' = None
    /\ signal' = None
    /\ account' = None
    /\ allow_status' = None
    /\ confirmation' = None
    /\ position_result' = None
    /\ steps' = <<>>
    /\ exec_level' = "none"
    /\ pc' = "margin"
    /\ UNCHANGED <<config, running, risk_executed>>
    /\ UNCHANGED <<signalVars, sizerVars, engineVars, scanVars, callVars, validatorVars>>

\* fault: the iteration goes on after a margin emergency
CheckMargin_no_skip ==
    /\ pc = "margin"
    /\ \E a \in Accounts :
           /\ margin_status' = check_margin_safety(a)
           /\ pc' = "closure"
    /\ steps' = Append(steps, "margin")
    /\ UNCHANGED <<session_info, signal, account, allow_status, confirmation,
                   position_result>>
    /\ UNCHANGED <<envVars, running, exec_level, risk_executed>>
    /\ UNCHANGED <<signalVars, sizerVars, scanVars, callVars, validatorVars>>
    /\ BrokerCalled({"get_account_summary", "get_positions"})

\* main.py 136-141: 2. CHECK MARGIN SAFETY
CheckMargin ==
    /\ pc = "margin"
    /\ \E a \in Accounts :
           /\ margin_status' = check_margin_safety(a)
           /\ pc' = IF check_margin_safety(a).level \in {"danger", "critical"}
                    THEN "start"
                    ELSE "closure"
    /\ steps' = Append(steps, "margin")
    /\ UNCHANGED <<session_info, signal, account, allow_status, confirmation,
                   position_result>>
    /\ UNCHANGED <<envVars, running, exec_level, risk_executed>>
    /\ UNCHANGED <<signalVars, sizerVars, scanVars, callVars, validatorVars>>
    /\ BrokerCalled({"get_account_summary", "get_positions"})

\* main.py 137, liquidation_guard.py 55-69: a broker call of
\* check_margin_safety raises
CheckMarginRaises ==
    /\ pc = "margin"
    /\ MarginCallRaises

\* main.py 143-148: 3. CHECK IF POSITION CLOSURE IS REQUIRED
CheckClosure ==
    /\ pc = "closure"
    /\ \E t \in TimePoints :
           /\ t >= now
           /\ now' = t
           /\ pc' = IF is_position_closure_required(t) THEN "start" ELSE "generate"
    /\ UNCHANGED <<config, running, IterLocals, steps, exec_level, risk_executed>>
    /\ UNCHANGED <<signalVars, sizerVars, engineVars, scanVars, callVars, validatorVars>>

\* fault: a tradeable signal is sized and executed straight away
AfterSignal_unprocessed(sig) ==
    IF sig.signal_type # "no_trade" THEN "size" ELSE "monitor"

\* main.py 160-162: only a signal other than NO_TRADE is processed
AfterSignal(sig) ==
    IF sig.signal_type # "no_trade" THEN "process" ELSE "monitor"

\* main.py 150-162: 4. GENERATE SIGNAL, 5. PROCESS SIGNAL
GenerateSignal ==
    /\ pc = "generate"
    /\ \E regime \in MainRegimes, healthy \in BOOLEAN,
          divergences \in MainDivergences, price \in Prices :
           LET sig == generate_signal(last_signal, regime, healthy,
                                      [overall_health |-> "HEALTHY"],
                                      divergences, price)
           IN  /\ signal' = sig
               /\ pc' = AfterSignal(sig)
    /\ steps' = Append(steps, "signal")
    /\ UNCHANGED <<session_info, margin_status, account, allow_status,
                   confirmation, position_result>>
    /\ UNCHANGED <<envVars, running, exec_level, risk_executed>>
    /\ UNCHANGED <<signalVars, sizerVars, engineVars, scanVars, callVars, validatorVars>>

\* signal_generator.py 173, 224: get_quote raises inside
\* _generate_divergence_signal or _generate_regime_signal, which have no try
\* block, and generate_signal raises with it
GenerateSignalRaises ==
    /\ pc = "generate"
    /\ \E regime \in MainRegimes, healthy \in BOOLEAN,
          divergences \in MainDivergences, price \in Prices :
           generate_signal(last_signal, regime, healthy,
                           [overall_health |-> "HEALTHY"],
                           divergences, price).priority \in {"P1", "P2"}
    /\ UNCHANGED broker_calls
    /\ MainLoopFatal("get_quote")

\* main.py 186-189: 1. CHECK IF NEW POSITIONS ALLOWED
ProcessSessionCheck ==
    /\ pc = "process"
    /\ \E t \in TimePoints :
           /\ t >= now
           /\ now' = t
           /\ pc' = IF should_allow_new_positions(t) THEN "allow" ELSE "monitor"
    /\ UNCHANGED <<config, running, IterLocals, steps, exec_level, risk_executed>>
    /\ UNCHANGED <<signalVars, sizerVars, engineVars, scanVars, callVars, validatorVars>>

\* main.py 191-194: 2. CHECK MARGIN SAFETY
ProcessMarginCheck ==
    /\ pc = "allow"
    /\ \E a \in Accounts :
           /\ allow_status' = check_margin_safety(a)
           /\ pc' = IF should_allow_new_position(a) THEN "confirm" ELSE "monitor"
    /\ steps' = Append(steps, "margin")
    /\ UNCHANGED <<session_info, margin_status, signal, account, confirmation,
                   position_result>>
    /\ UNCHANGED <<envVars, running, exec_level, risk_executed>>
    /\ UNCHANGED <<signalVars, sizerVars, scanVars>>
    /\ UNCHANGED <<callVars, validatorVars>>
    /\ BrokerCalled({"get_account_summary", "get_positions"})

\* main.py 192, liquidation_guard.py 175: a broker call of
\* should_allow_new_position's check_margin_safety raises
ProcessMarginCheckRaises ==
    /\ pc = "allow"
    /\ MarginCallRaises

\* main.py 196-197: 3. REQUEST CONFIRMATION (the call)
RequestConfirmation ==
    /\ pc = "confirm"
    /\ \E t \in TimePoints :
           /\ t >= now
           /\ now' = t
           /\ signal' = [signal EXCEPT !.id = next_id]
           /\ RequestConfirmationBegin([signal EXCEPT !.id = next_id], t)
    /\ steps' = Append(steps, "confirm")
    /\ pc' = "confirming"
    /\ UNCHANGED <<session_info, margin_status, account, allow_status,
                   confirmation, position_result>>
    /\ UNCHANGED <<config, running, exec_level, risk_executed>>
    /\ UNCHANGED <<signalVars, sizerVars, engineVars, scanVars>>

\* fault: the answer of the confirmation is not looked at
AfterConfirmation_unchecked(resp) ==
    "size"

\* main.py 199-203: an unconfirmed trade is dropped
AfterConfirmation(resp) ==
    IF resp.confirmed THEN "size" ELSE "monitor"

\* main.py 197-203: the call returns
ConfirmationReturn ==
    /\ pc = "confirming"
    /\ vpc = "done"
    /\ confirmation' = response
    /\ vpc' = "idle"
    /\ trade_id' = 0
    /\ elapsed' = 0
    /\ response' = None
    /\ published' = <<>>
    /\ confirm_seen' = FALSE
    /\ pc' = AfterConfirmation(response)
    /\ UNCHANGED <<session_info, margin_status, signal, account, allow_status,
                   position_result>>
    /\ UNCHANGED <<envVars, running, steps, exec_level, risk_executed>>
    /\ UNCHANGED <<signalVars, sizerVars, engineVars, scanVars, validatorVars, next_id>>

\* main.py 205-220: 4. CALCULATE POSITION SIZE
CalculateSize ==
    /\ pc = "size"
    /\ \E a \in Accounts :
           /\ account' = a
           /\ position_result' =
                  calculate_position_size(today_risk_used, active_divergences,
                      a.equity, signal.instrument, signal.suggested_entry,
                      signal.suggested_stop, signal.confidence,
                      signal.regime.score, signal.position_size_multiplier)
    /\ steps' = Append(steps, "size")
    /\ pc' = "execute"
    /\ UNCHANGED <<session_info, margin_status, signal, allow_status, confirmation>>
    /\ UNCHANGED <<envVars, running, exec_level, risk_executed>>
    /\ UNCHANGED <<signalVars, sizerVars, scanVars, callVars, validatorVars>>
    /\ BrokerCalled({"get_account_summary"})

\* main.py 206: get_account_summary raises
CalculateSizeRaises ==
    /\ pc = "size"
    /\ broker_calls' = broker_calls \cup {"get_account_summary"}
    /\ MainLoopFatal("get_account_summary")

\* fault: the order of line 231 is placed
ExecuteBrokerCalls_placing ==
    {"place_order"}

\* main.py 222-231: the trade is only logged; the place_order call of line
\* 231 is a comment
ExecuteBrokerCalls ==
    {}

\* main.py 222-231: 5. EXECUTE TRADE
Execute ==
    /\ pc = "execute"
    /\ exec_level' = check_margin_safety(account).level
    /\ risk_executed' = RAdd(risk_executed, position_result.risk_amount)
    /\ steps' = Append(steps, "execute")
    /\ pc' = "monitor"
    /\ UNCHANGED <<envVars, running, IterLocals>>
    /\ UNCHANGED <<signalVars, sizerVars, scanVars, callVars, validatorVars>>
    /\ BrokerCalled(ExecuteBrokerCalls)

\* main.py 164-171: 6. MONITOR EXISTING POSITIONS, 7. PUBLISH STATUS UPDATE, sleep
EndIteration ==
    /\ pc = "monitor"
    /\ pc' = "start"
    /\ UNCHANGED <<envVars, running, IterLocals, steps, exec_level, risk_executed>>
    /\ UNCHANGED <<signalVars, sizerVars, scanVars, callVars, validatorVars>>
    /\ BrokerCalled({"get_positions"})

\* main.py 165, 235: get_positions raises in _monitor_positions
MonitorRaises ==
    /\ pc = "monitor"
    /\ broker_calls' = broker_calls \cup {"get_positions"}
    /\ MainLoopFatal("get_positions")

\* main.py 173-178, 272-284: the loop is interrupted, _shutdown
Shutdown ==
    /\ pc = "start"
    /\ running
    /\ running' = FALSE
    /\ pc' = "stopped"
    /\ UNCHANGED <<envVars, IterLocals, steps, exec_level, risk_executed>>
    /\ UNCHANGED <<signalVars, sizerVars, engineVars, scanVars, callVars, validatorVars>>

Next ==
    \/ IterStart
    \/ CheckMargin
    \/ CheckClosure
    \/ GenerateSignal
    \/ ProcessSessionCheck
    \/ ProcessMarginCheck
    \/ RequestConfirmation
    \/ WaitStart
    \/ Tick
    \/ ConfirmPending
    \/ ConfirmationReturn
    \/ CalculateSize
    \/ Execute
    \/ EndIteration
    \/ CheckMarginRaises
    \/ GenerateSignalRaises
    \/ ProcessMarginCheckRaises
    \/ CalculateSizeRaises
    \/ MonitorRaises
    \/ Shutdown

Spec ==
    Init /\ [][Next]_vars

(***************************************************************************)
(* The signal generator called on its own, over all kinds of engine       *)
(* results                                                                 *)
(***************************************************************************)
DefaultConfig ==
    [mode |-> "live", require_manual_confirmation |-> TRUE,
     confirmation_timeout_seconds |-> MaxTimeout]

\* every regime label, the strong ones on both sides of the 0.70 threshold
SignalRegimes ==
    {Regime("strong_risk_on", R(3), <<4, 5>>),
     Regime("strong_risk_on", R(3), <<7, 10>>),
     Regime("weak_risk_on", R(2), <<4, 5>>),
     Regime("neutral", R(0), <<4, 5>>),
     Regime("weak_risk_off", R(-2), <<4, 5>>),
     Regime("strong_risk_off", R(-3), <<4, 5>>),
     Regime("unreliable", R(0), Zero),
     Regime("data_error", R(0), Zero)}

\* scan_divergences: none, one above and one on the 0.65 threshold, the best
\* one last, the best one first
SignalDivergences ==
    {<<>>,
     <<Divergence("bullish", "US500", <<4, 5>>)>>,
     <<Divergence("bearish", "US500", <<13, 20>>)>>,
     <<Divergence("bearish", "US500", <<13, 20>>),
       Divergence("bearish", "DAX", <<4, 5>>)>>,
     <<Divergence("bullish", "US500", <<4, 5>>),
       Divergence("bullish", "DAX", <<7, 10>>)>>}

\* get_correlation_report: a report, or {"status": "NO_DATA"}
CorrelationReports ==
    {[overall_health |-> "HEALTHY"], [status |-> "NO_DATA"]}

InitSignal ==
    /\ Init
    /\ config = DefaultConfig
    /\ now = 600

\* one call of generate_signal; nothing assigns last_signal
GenerateSignalCall ==
    /\ \E regime \in SignalRegimes, healthy \in BOOLEAN,
          report \in CorrelationReports, divergences \in SignalDivergences,
          price \in Prices :
           /\ signal' = generate_signal(last_signal, regime, healthy, report,
                                        divergences, price)
           /\ signal_args' = [regime |-> regime, correlation_healthy |-> healthy,
                              divergences |-> divergences]
    /\ prev_signal' = signal
    /\ UNCHANGED <<envVars, pc, running, session_info, margin_status, account,
                   allow_status, confirmation, position_result, steps, exec_level,
                   risk_executed>>
    /\ UNCHANGED <<last_signal, sizerVars, engineVars, scanVars, callVars, validatorVars>>

NextSignal ==
    GenerateSignalCall

SpecSignal ==
    InitSignal /\ [][NextSignal]_vars

(***************************************************************************)
(* The position sizer called on its own                                    *)
(***************************************************************************)
SizerInstruments ==
    {"US500", "DAX"}

\* the arguments of tests/test_position_sizer.py and variations of them
SizerArgs ==
    [account_equity : {R(100000)},
     instrument : SizerInstruments,
     entry_price : {R(4500)},
     stop_loss_price : {R(4488), R(4500)},
     signal_confidence : {<<3, 4>>},
     regime_score : {R(2), R(1)},
     position_size_multiplier : {One}]

InitSizer ==
    /\ Init
    /\ config = DefaultConfig
    /\ now = 600

SizerFrame ==
    /\ UNCHANGED <<envVars, mainVars, signalVars, callVars, validatorVars>>
    /\ UNCHANGED <<scanVars, engineVars>>

\* one call of calculate_position_size
SizeCall ==
    /\ \E a \in SizerArgs :
           sizing' = [today_used |-> today_risk_used,
                      active |-> active_divergences,
                      args |-> a,
                      result |-> calculate_position_size(today_risk_used,
                                    active_divergences, a.account_equity,
                                    a.instrument, a.entry_price, a.stop_loss_price,
                                    a.signal_confidence, a.regime_score,
                                    a.position_size_multiplier)]
    /\ UNCHANGED <<today_risk_used, active_divergences>>
    /\ SizerFrame

\* update_daily_risk_used(risk_amount): the caller books the risk of the
\* position it has just sized, once
UpdateDailyRiskUsed ==
    /\ sizing # None
    /\ sizing.today_used = today_risk_used
    /\ today_risk_used' = RAdd(today_risk_used, sizing.result.risk_amount)
    /\ UNCHANGED <<active_divergences, sizing>>
    /\ SizerFrame

\* calculator.today_risk_used = 2.8 (test_daily_risk_limit)
SetTodayRiskUsed ==
    /\ today_risk_used' = <<14, 5>>
    /\ UNCHANGED <<active_divergences, sizing>>
    /\ SizerFrame

reset_daily_risk ==
    /\ today_risk_used' = Zero
    /\ UNCHANGED <<active_divergences, sizing>>
    /\ SizerFrame

add_divergence_instrument ==
    /\ \E instrument \in SizerInstruments :
           active_divergences' = active_divergences \cup {instrument}
    /\ UNCHANGED <<today_risk_used, sizing>>
    /\ SizerFrame

remove_divergence_instrument ==
    /\ \E instrument \in SizerInstruments :
           active_divergences' = active_divergences \ {instrument}
    /\ UNCHANGED <<today_risk_used, sizing>>
    /\ SizerFrame

NextSizer ==
    \/ SizeCall
    \/ UpdateDailyRiskUsed
    \/ SetTodayRiskUsed
    \/ reset_daily_risk
    \/ add_divergence_instrument
    \/ remove_divergence_instrument

SpecSizer ==
    InitSizer /\ [][NextSizer]_vars

(***************************************************************************)
(* The trade validator called on its own: trade results are recorded and   *)
(* the statistics reset between and during the requests                    *)
(***************************************************************************)
\* losses kept in today_losses
MaxLosses ==
    3

\* clock readings: 03:00, 10:30 and 11:30 UTC
ValidatorTimes ==
    {180, 630, 690}

\* the signals handed to request_confirmation: a regime one and a divergence one
ValidatorSignals ==
    {_generate_regime_signal(Regime("strong_risk_on", R(3), <<4, 5>>), [overall_health |-> "HEALTHY"], R(4500)),
     _generate_divergence_signal(Divergence("bullish", "US500", <<4, 5>>), Regime("neutral", R(0), <<4, 5>>), [overall_health |-> "HEALTHY"], R(4500))}

\* (pnl, win) of the recorded results: a small loss, a large loss, a win
TradeResults ==
    {<<<<-1, 2>>, FALSE>>, <<R(-3), FALSE>>, <<One, TRUE>>}

InitValidator ==
    /\ Init
    /\ now = 180

\* request_confirmation(signal) called directly, up to its first wait
RequestDirect ==
    /\ \E t \in ValidatorTimes, sig \in ValidatorSignals :
           /\ t >= now
           /\ now' = t
           /\ RequestConfirmationBegin([sig EXCEPT !.id = next_id], t)
    /\ UNCHANGED <<config, mainVars, signalVars, sizerVars, engineVars, scanVars>>

\* the caller has received the ConfirmationResponse
ReturnDirect ==
    /\ vpc = "done"
    /\ vpc' = "idle"
    /\ trade_id' = 0
    /\ elapsed' = 0
    /\ response' = None
    /\ published' = <<>>
    /\ confirm_seen' = FALSE
    /\ UNCHANGED <<envVars, mainVars, signalVars, sizerVars, engineVars, scanVars,
                   validatorVars, next_id>>

\* fault: the loss amount is not accumulated
record_trade_result_amount_kept(id, pnl, win, t) ==
    /\ today_losses' =
           IF ~win
           THEN Append(today_losses, [trade_id |-> id, pnl |-> pnl, timestamp |-> t])
           ELSE today_losses
    /\ today_loss_amount' = today_loss_amount
    /\ now' = t
    /\ UNCHANGED <<pending_trades, confirmations>>
    /\ UNCHANGED <<config, mainVars, signalVars, sizerVars, engineVars, scanVars, callVars>>

\* record_trade_result(trade_id, pnl, win) at the clock reading t
record_trade_result(id, pnl, win, t) ==
    /\ today_losses' =
           IF ~win
           THEN Append(today_losses, [trade_id |-> id, pnl |-> pnl, timestamp |-> t])
           ELSE today_losses
    /\ today_loss_amount' =
           IF RLt(pnl, Zero) THEN RAdd(today_loss_amount, RAbs(pnl)) ELSE today_loss_amount
    /\ now' = t
    /\ UNCHANGED <<pending_trades, confirmations>>
    /\ UNCHANGED <<config, mainVars, signalVars, sizerVars, engineVars, scanVars, callVars>>

RecordTradeResult ==
    \E t \in ValidatorTimes, r \in TradeResults :
        /\ t >= now
        /\ Len(today_losses) < MaxLosses
        /\ record_trade_result(0, r[1], r[2], t)

reset_daily_stats ==
    /\ today_losses' = <<>>
    /\ today_loss_amount' = Zero
    /\ UNCHANGED <<pending_trades, confirmations>>
    /\ UNCHANGED <<envVars, mainVars, signalVars, sizerVars, engineVars, scanVars, callVars>>

NextReadiness ==
    \/ RequestDirect
    \/ WaitStart
    \/ Tick
    \/ ReturnDirect
    \/ RecordTradeResult
    \/ reset_daily_stats

SpecReadiness ==
    InitValidator /\ [][NextReadiness]_vars

\* the validator with every caller at once: requests, recorded losses, the
\* daily reset and the operator's answers to pending trades
RecordLoss ==
    \E t \in ValidatorTimes :
        /\ t >= now
        /\ Len(today_losses) < MaxLosses
        /\ record_trade_result(0, R(-3), FALSE, t)

NextPaths ==
    \/ RequestDirect
    \/ WaitStart
    \/ Tick
    \/ ReturnDirect
    \/ RecordLoss
    \/ reset_daily_stats
    \/ ConfirmPending

SpecPaths ==
    InitValidator /\ [][NextPaths]_vars

(***************************************************************************)
(* The trade validator with confirm_trade called from outside for any id:  *)
(* pending, resolved, or never issued (0)                                  *)
(***************************************************************************)
InitConfirm ==
    /\ Init
    /\ now = 600

ConfirmAny ==
    \E id \in 0..(next_id - 1), confirmed \in BOOLEAN :
        confirm_trade(id, confirmed)

NextConfirm ==
    \/ RequestDirect
    \/ WaitStart
    \/ Tick
    \/ ReturnDirect
    \/ ConfirmAny

SpecConfirm ==
    InitConfirm /\ [][NextConfirm]_vars

\* the same calls under the event loop's scheduling: the coroutine of
\* request_confirmation is resumed when it is ready (WaitStart) and the
\* timers of asyncio.sleep(1) and asyncio.wait_for fire (Tick)
WaitFairness ==
    WF_vars(WaitStart) /\ WF_vars(Tick)

SpecWait ==
    InitConfirm /\ [][NextConfirm]_vars /\ WaitFairness

(***************************************************************************)
(* The liquidation guard called directly, with account summaries on and    *)
(* next to every rung of the ladder                                        *)
(***************************************************************************)
GuardAccount(equity, margin_used) ==
    [equity |-> R(equity),
     margin_used |-> R(margin_used),
     maintenance_margin |-> RMul(R(margin_used), <<1, 2>>),
     has_positions |-> margin_used > 0,
     positions_value |-> R(margin_used * 30)]

\* margin ratios 1.24999, 1.25, 1.49999, 1.5, 1.74999, 1.75, 2.49999, 2.5, 3
\* and, with no margin in use, +infinity
GuardAccounts ==
    {GuardAccount(e, 100000) : e \in {124999, 125000, 149999, 150000, 174999,
                                      175000, 249999, 250000, 300000}}
        \cup {GuardAccount(100000, 0)}

InitGuard ==
    /\ Init
    /\ config = DefaultConfig
    /\ now = 600

CheckMarginSafetyCall ==
    /\ \E a \in GuardAccounts : margin_status' = check_margin_safety(a)
    /\ UNCHANGED <<pc, running, session_info, signal, account, allow_status,
                   confirmation, position_result, steps, exec_level,
                   risk_executed>>
    /\ UNCHANGED <<envVars, signalVars, sizerVars, engineVars, scanVars, callVars,
                   validatorVars>>

\* should_allow_new_position: the status it computes and what it returns
ShouldAllowNewPositionCall ==
    /\ \E a \in GuardAccounts :
           allow_status' = [status |-> check_margin_safety(a),
                            allowed |-> should_allow_new_position(a)]
    /\ UNCHANGED <<pc, running, session_info, margin_status, signal, account,
                   confirmation, position_result, steps, exec_level,
                   risk_executed>>
    /\ UNCHANGED <<envVars, signalVars, sizerVars, engineVars, scanVars, callVars,
                   validatorVars>>

NextGuard ==
    \/ CheckMarginSafetyCall
    \/ ShouldAllowNewPositionCall

SpecGuard ==
    InitGuard /\ [][NextGuard]_vars

(***************************************************************************)
(* Divergence engine (core/divergence_detector.py): scan_divergences, one  *)
(* step per instrument checked.  What a check finds in the feed data and   *)
(* what each filter answers is the environment's choice.                   *)
(***************************************************************************)
\* the exception a check or a filter raised
Raised ==
    [raised |-> TRUE]

Satellites ==
    <<"DAX", "NAS100", "AUDJPY">>

\* self.false_positive_filters: _filter_vix_spike, _filter_low_volatility,
\* _filter_correlation_decay, or what was put in their place
NumFilters ==
    3

\* a filter returns True ("accept"), returns False ("reject") or raises
FilterAnswers ==
    {"accept", "reject", "raise"}

\* the answers of the three filters to one candidate: all accept, exactly one
\* does not, or none does
FilterOutcomes ==
    {o \in [1..NumFilters -> FilterAnswers] :
        \/ Cardinality({i \in 1..NumFilters : o[i] # "accept"}) <= 1
        \/ \A i \in 1..NumFilters : o[i] = "reject"}

\* what _check_spx_usdjpy_divergence returns: None (also after an error,
\* which it catches itself) or a candidate on US500
CoreCandidates ==
    {None, Divergence("bullish", "US500", <<4, 5>>),
     Divergence("bearish", "US500", <<7, 10>>)}

\* what the try block of one satellite meets: None, a candidate, or an
\* exception
SatelliteCandidates(satellite) ==
    {None, Raised, Divergence("bearish", satellite, <<7, 10>>)}

\* fault: a filter that raises is skipped instead of rejecting the candidate
_validate_divergence_fail_open(outcomes) ==
    \A i \in 1..NumFilters : outcomes[i] \in {"accept", "raise"}

\* the loop returns False at the first filter that returns False or raises,
\* True after the last one
_validate_divergence(outcomes) ==
    \A i \in 1..NumFilters : outcomes[i] = "accept"

\* the filters are asked only about a candidate
LogEntry(instrument, raw, outcomes) ==
    [instrument |-> instrument, raw |-> raw,
     outcomes |-> IF raw \in {None, Raised} THEN <<>> ELSE outcomes]

ScanFrame ==
    UNCHANGED <<envVars, mainVars, signalVars, sizerVars, engineVars, callVars, validatorVars>>

InitScan ==
    /\ Init
    /\ config = DefaultConfig
    /\ now = 600

\* signals = []
ScanStart ==
    /\ scan_pos \in {0, 5}
    /\ scan_pos' = 1
    /\ signals' = <<>>
    /\ scan_log' = <<>>
    /\ ScanFrame

\* 1. CHECK CORE DIVERGENCE
CheckCoreDivergence ==
    /\ scan_pos = 1
    /\ \E raw \in CoreCandidates, outcomes \in FilterOutcomes :
           /\ signals' = IF raw # None /\ _validate_divergence(outcomes)
                         THEN Append(signals, raw)
                         ELSE signals
           /\ scan_log' = Append(scan_log, LogEntry("US500", raw, outcomes))
    /\ scan_pos' = 2
    /\ ScanFrame

\* 2. CHECK SATELLITE DIVERGENCES: one turn of the loop, try and except;
\* after the last satellite, return signals
CheckSatelliteDivergence ==
    /\ scan_pos \in 2..4
    /\ \E raw \in SatelliteCandidates(Satellites[scan_pos - 1]),
          outcomes \in FilterOutcomes :
           /\ signals' = IF raw \notin {None, Raised} /\ _validate_divergence(outcomes)
                         THEN Append(signals, raw)
                         ELSE signals
           /\ scan_log' = Append(scan_log,
                                 LogEntry(Satellites[scan_pos - 1], raw, outcomes))
    /\ scan_pos' = scan_pos + 1
    /\ ScanFrame

NextScan ==
    \/ ScanStart
    \/ CheckCoreDivergence
    \/ CheckSatelliteDivergence

SpecScan ==
    InitScan /\ [][NextScan]_vars

(***************************************************************************)
(* The position sizer over a wider range of arguments and of booked risk:  *)
(* a stop on, next to and away from the entry, confidence on both sides of *)
(* 0.65, weak and strong regime scores, signal multipliers, and a daily    *)
(* risk budget that is untouched, partly used and used up                  *)
(***************************************************************************)
\* largest amount of risk booked in one day (dollars)
MaxRiskUsed ==
    4200

\* the risk_amount arguments of update_daily_risk_used
RiskAmounts ==
    {R(1400)}

SizingArgs ==
    {a \in [account_equity : {R(100000)},
            instrument : {"US500"},
            entry_price : {R(4500), Zero},
            stop_loss_price : {R(4488), R(4499), R(4500), Zero},
            signal_confidence : {<<3, 4>>, <<1, 2>>},
            regime_score : {R(2), R(-1)},
            position_size_multiplier : {One, <<4, 5>>}] :
        /\ a.entry_price = Zero <=> a.stop_loss_price = Zero
        /\ a.entry_price = Zero => a.position_size_multiplier = One}

\* one call of calculate_position_size
SizingCall ==
    /\ \E a \in SizingArgs :
           sizing' = [today_used |-> today_risk_used,
                      active |-> active_divergences,
                      args |-> a,
                      result |-> calculate_position_size(today_risk_used,
                                    active_divergences, a.account_equity,
                                    a.instrument, a.entry_price, a.stop_loss_price,
                                    a.signal_confidence, a.regime_score,
                                    a.position_size_multiplier)]
    /\ UNCHANGED <<today_risk_used, active_divergences>>
    /\ SizerFrame

update_daily_risk_used ==
    /\ \E risk_amount \in RiskAmounts :
           /\ RLe(RAdd(today_risk_used, risk_amount), R(MaxRiskUsed))
           /\ today_risk_used' = RAdd(today_risk_used, risk_amount)
    /\ UNCHANGED <<active_divergences, sizing>>
    /\ SizerFrame

NextSizing ==
    \/ SizingCall
    \/ update_daily_risk_used
    \/ reset_daily_risk
    \/ add_divergence_instrument
    \/ remove_divergence_instrument

SpecSizing ==
    InitSizer /\ [][NextSizing]_vars

(***************************************************************************)
(* Regime engine (core/regime_engine.py), with the configuration of        *)
(* tests/test_regime_engine.py.  args: what one call meets in the feed:    *)
(* the symbol whose history fetch raises ("none": all four succeed), the   *)
(* percentage changes, the US10Y trend, the VIX level and what             *)
(* calculate_correlation returns                                           *)
(***************************************************************************)
base_threshold_percent ==
    <<1, 5>>

volatility_limit ==
    <<3, 20>>

\* primary_gauges: the weight of a symbol
GaugeWeight(symbol) ==
    IF symbol \in DOMAIN primary_gauges THEN primary_gauges[symbol] ELSE Zero

_categorize_vix(vix_level) ==
    IF RLt(vix_level, R(15)) THEN "low"
    ELSE IF RLt(vix_level, R(25)) THEN "moderate"
    ELSE IF RLt(vix_level, R(40)) THEN "high"
    ELSE "extreme"

\* vix_levels[category]['threshold_multiplier']
ThresholdMultiplier(category) ==
    CASE category = "low" -> One
      [] category = "moderate" -> <<4, 5>>
      [] category = "high" -> <<3, 5>>
      [] OTHER -> <<2, 5>>

_classify_score(score) ==
    IF RLe(R(3), score) THEN "strong_risk_on"
    ELSE IF RLe(<<3, 2>>, score) THEN "weak_risk_on"
    ELSE IF RLe(<<-3, 2>>, score) THEN "neutral"
    ELSE IF RLe(R(-3), score) THEN "weak_risk_off"
    ELSE "strong_risk_off"

RMax(a, b) ==
    IF RLt(a, b) THEN b ELSE a

\* np.mean of the three factors
_calculate_confidence(corr, corr_vol, vix) ==
    RDiv(RAdd(RAdd(RMin(One, RDiv(corr, <<7, 10>>)),
                   RMax(Zero, RSub(One, RDiv(corr_vol, <<1, 5>>)))),
              RMax(Zero, RSub(One, RDiv(RMax(Zero, RSub(vix, R(15))), R(25))))),
         R(3))

\* 3. VIX-ADAPTIVE THRESHOLD
Threshold(vix_level) ==
    RMul(base_threshold_percent, ThresholdMultiplier(_categorize_vix(vix_level)))

\* +weight above the threshold, -weight below minus the threshold
Signed(change, threshold, weight) ==
    IF RLt(threshold, change) THEN weight
    ELSE IF RLt(change, RSub(Zero, threshold)) THEN RSub(Zero, weight)
    ELSE Zero

\* 5. SCORE COMPONENTS (weighted)
RiskOnScore(args) ==
    RAdd(RAdd(Signed(args.spx_change, Threshold(args.vix_level), GaugeWeight("US500")),
              Signed(args.usdjpy_change, Threshold(args.vix_level), GaugeWeight("USDJPY"))),
         RAdd(Signed(RSub(Zero, args.vix_change), R(5), GaugeWeight("VIX")),
              CASE args.us10y_trend = "rising" -> GaugeWeight("US10Y")
                [] args.us10y_trend = "falling" -> RSub(Zero, GaugeWeight("US10Y"))
                [] OTHER -> Zero))

\* 7. SESSION ADJUSTMENTS
SessionAdjusted(score, current_session) ==
    IF current_session = "ASIAN" THEN RMul(score, <<7, 5>>)
    ELSE IF current_session \in {"US_ONLY", "US_LATE"} THEN RMul(score, <<9, 10>>)
    ELSE score

RegimeClassification(regime_type, score, correlation_health, vix_level, threshold_used, confidence, session, status, reason) ==
    [regime_type |-> regime_type, score |-> score,
     correlation_health |-> correlation_health, vix_level |-> vix_level,
     threshold_used |-> threshold_used, confidence |-> confidence,
     session |-> session, status |-> status, reason |-> reason]

\* fault: a volatility equal to the limit already counts as instability
CorrelationUnstable_at_limit(corr_vol) ==
    RLe(volatility_limit, corr_vol)

\* FALSE POSITIVE FILTER: High correlation volatility = unreliable regime
CorrelationUnstable(corr_vol) ==
    RLt(volatility_limit, corr_vol)

\* fault: the score is classified after the session adjustment
analyze_regime_label_after_session(args, current_session) ==
    IF args.failing # "none"
    THEN RegimeClassification("data_error", Zero, Zero, Zero, Zero, Zero,
                              current_session, "DATA_ERROR", "DataFeedError")
    ELSE IF CorrelationUnstable(args.corr_vol)
    THEN RegimeClassification("unreliable", Zero, args.core_corr, args.vix_level,
                              Threshold(args.vix_level), Zero, current_session,
                              "UNRELIABLE", "Correlation instability")
    ELSE RegimeClassification(_classify_score(SessionAdjusted(RiskOnScore(args), current_session)),
                              SessionAdjusted(RiskOnScore(args), current_session),
                              args.core_corr, args.vix_level,
                              Threshold(args.vix_level),
                              _calculate_confidence(args.core_corr, args.corr_vol,
                                                    args.vix_level),
                              current_session, "OK", "")

analyze_regime(args, current_session) ==
    IF args.failing # "none"
    THEN RegimeClassification("data_error", Zero, Zero, Zero, Zero, Zero,
                              current_session, "DATA_ERROR", "DataFeedError")
    ELSE IF CorrelationUnstable(args.corr_vol)
    THEN RegimeClassification("unreliable", Zero, args.core_corr, args.vix_level,
                              Threshold(args.vix_level), Zero, current_session,
                              "UNRELIABLE", "Correlation instability")
    ELSE RegimeClassification(_classify_score(RiskOnScore(args)),
                              SessionAdjusted(RiskOnScore(args), current_session),
                              args.core_corr, args.vix_level,
                              Threshold(args.vix_level),
                              _calculate_confidence(args.core_corr, args.corr_vol,
                                                    args.vix_level),
                              current_session, "OK", "")

\* the four histories analyze_regime fetches
RegimeSymbols ==
    {"US500", "USDJPY", "VIX", "US10Y"}

RegimeArgs ==
    [failing : {"none"},
     spx_change : {<<1, 2>>},
     usdjpy_change : {<<1, 2>>, <<-1, 2>>},
     vix_change : {R(-10)},
     us10y_trend : {"rising"},
     vix_level : {R(10), R(40)},
     core_corr : {R(-1), One},
     corr_vol : {<<3, 20>>, <<1, 5>>}]
        \cup [failing : RegimeSymbols,
              spx_change : {Zero}, usdjpy_change : {Zero}, vix_change : {Zero},
              us10y_trend : {"flat"}, vix_level : {Zero}, core_corr : {Zero},
              corr_vol : {Zero}]

RegimeSessions ==
    {"ASIAN", "US_OVERLAP"}

\* one call of analyze_regime; a sentinel is returned before last_regime is
\* assigned
AnalyzeRegimeCall ==
    /\ \E args \in RegimeArgs, current_session \in RegimeSessions :
           LET result == analyze_regime(args, current_session)
           IN  /\ regime_args' = args
               /\ regime_result' = result
               /\ last_regime' = IF result.status = "OK" THEN result ELSE last_regime
    /\ UNCHANGED primary_gauges
    /\ UNCHANGED <<envVars, mainVars, signalVars, sizerVars, scanVars, callVars,
                   validatorVars, feedVars, brokerVars, faultVars, historyVars,
                   coreVars>>

NextRegime ==
    AnalyzeRegimeCall

SpecRegime ==
    InitScan /\ [][NextRegime]_vars

\* a configuration whose gauges weigh four times those of the test
\* configuration, so that scores leave the neutral bucket
HeavyGauges ==
    [US500 |-> <<7, 5>>, USDJPY |-> <<6, 5>>, VIX |-> <<4, 5>>, US10Y |-> <<2, 5>>]

GaugeConfigs ==
    {TestGauges, HeavyGauges}

\* the values of TradingSession (session_manager.py 16-21) and "US_LATE",
\* which analyze_regime also knows
SessionLabels ==
    {"ASIAN", "EUROPEAN", "US_OVERLAP", "US_ONLY", "US_LATE", "CLOSED"}

\* feeds in which all four fetches succeed: eight with a stable correlation
\* and one with an unstable one
SessionArgs ==
    [failing : {"none"},
     spx_change : {<<1, 2>>},
     usdjpy_change : {<<1, 2>>, <<-1, 2>>},
     vix_change : {R(-10), R(10)},
     us10y_trend : {"rising", "falling"},
     vix_level : {R(10)},
     core_corr : {One},
     corr_vol : {<<3, 20>>}]
        \cup [failing : {"none"},
              spx_change : {<<1, 2>>}, usdjpy_change : {<<1, 2>>},
              vix_change : {R(-10)}, us10y_trend : {"rising"},
              vix_level : {R(10)}, core_corr : {One}, corr_vol : {<<1, 5>>}]

InitGauges ==
    /\ InitComponents
    /\ EmptyHistories
    /\ primary_gauges \in GaugeConfigs
    /\ config = DefaultConfig
    /\ now = 600

\* one call of analyze_regime in any session
AnalyzeRegimeInSession ==
    /\ \E args \in SessionArgs, current_session \in SessionLabels :
           LET result == analyze_regime(args, current_session)
           IN  /\ regime_args' = args
               /\ regime_result' = result
               /\ last_regime' = IF result.status = "OK" THEN result ELSE last_regime
    /\ UNCHANGED primary_gauges
    /\ UNCHANGED <<envVars, mainVars, signalVars, sizerVars, scanVars, callVars,
                   validatorVars, feedVars, brokerVars, faultVars, historyVars,
                   coreVars>>

NextSession ==
    AnalyzeRegimeInSession

SpecSession ==
    InitGauges /\ [][NextSession]_vars

(***************************************************************************)
(* Data feed bootstrap (data/data_feed.py): create_data_feed and the task *)
(* IBKRDataFeed._connect_with_retry it starts                              *)
(***************************************************************************)
\* _connect_with_retry(max_attempts=3)
max_attempts ==
    3

\* asyncio.sleep(5) between two attempts
BackoffSeconds ==
    5

FeedFrame ==
    /\ UNCHANGED <<envVars, mainVars, signalVars, sizerVars, scanVars, callVars>>
    /\ UNCHANGED <<validatorVars, regimeVars, brokerVars, faultVars, historyVars>>
    /\ UNCHANGED coreVars

InitFeed ==
    /\ Init
    /\ now = 600

\* data_feed.py 254-256: create_task raised (no running event loop), the
\* except branch returns a MockDataFeed
FeedWithoutTask ==
    "mock"

\* data_feed.py 241-258; loop_running: create_data_feed is called inside a
\* running event loop, as ROROSentinel.__init__ under asyncio.run(main()) is.
\* In live mode the task is only scheduled and the IBKRDataFeed is returned
\* at once, whatever the task will do.
create_data_feed ==
    /\ data_feed = "none"
    /\ \E loop_running \in BOOLEAN :
           IF config.mode = "live" /\ loop_running
           THEN /\ data_feed' = "ibkr"
                /\ connect_pc' = "attempt"
           ELSE /\ data_feed' = IF config.mode = "live" THEN FeedWithoutTask ELSE "mock"
                /\ connect_pc' = "none"
    /\ UNCHANGED <<connected, attempt, backoff, fetched>>
    /\ FeedFrame

\* data_feed.py 206-219: one pass of the loop; ok: connectAsync succeeded
ConnectAttempt ==
    /\ connect_pc = "attempt"
    /\ attempt' = attempt + 1
    /\ \E ok \in BOOLEAN :
           IF ok
           THEN /\ connected' = TRUE
                /\ connect_pc' = "done"
           ELSE /\ connected' = connected
                /\ connect_pc' = IF attempt = max_attempts - 1 THEN "failed" ELSE "sleep"
    /\ backoff' = 0
    /\ UNCHANGED <<data_feed, fetched>>
    /\ FeedFrame

\* data_feed.py 220: one second of asyncio.sleep(5)
BackoffSecond ==
    /\ connect_pc = "sleep"
    /\ backoff' = backoff + 1
    /\ connect_pc' = IF backoff + 1 = BackoffSeconds THEN "attempt" ELSE "sleep"
    /\ UNCHANGED <<data_feed, connected, attempt, fetched>>
    /\ FeedFrame

\* data_feed.py 162-193, 230-238: an engine calls get_history on the feed
\* the system holds
GetHistory ==
    /\ data_feed # "none"
    /\ fetched' = IF data_feed = "mock" THEN "data"
                  ELSE IF ~connected THEN "DataFeedError"
                  ELSE "NotImplementedError"
    /\ UNCHANGED <<data_feed, connected, connect_pc, attempt, backoff>>
    /\ FeedFrame

NextFeed ==
    \/ create_data_feed
    \/ ConnectAttempt
    \/ BackoffSecond
    \/ GetHistory

SpecFeed ==
    InitFeed /\ [][NextFeed]_vars

(***************************************************************************)
(* Correlation monitor (core/correlation_monitor.py) and the bounded       *)
(* histories.  The orchestrator specification draws the answer of          *)
(* is_correlation_healthy from BOOLEAN and keeps no history; the histories *)
(* are followed in the specifications of this section.                     *)
(***************************************************************************)
\* config['correlation'] of the test fixture
healthy_threshold ==
    <<13, 20>>

critical_breakdown ==
    <<2, 5>>

\* the literal 1000 of the three "keep only last 1000 entries" blocks
history_limit ==
    1000

\* fault: the oldest n entries are kept and the newest dropped
KeepLast_oldest(h, n) ==
    IF Len(h) > n THEN SubSeq(h, 1, n) ELSE h

\* h[-n:]
KeepLast(h, n) ==
    IF Len(h) > n THEN SubSeq(h, Len(h) - n + 1, Len(h)) ELSE h

\* fault: the rung below WARNING starts at the critical threshold itself
_assess_health_two_cuts(correlation, volatility) ==
    IF RLt(volatility_limit, volatility) THEN "warning"
    ELSE IF RLe(healthy_threshold, RAbs(correlation)) THEN "healthy"
    ELSE IF RLe(critical_breakdown, RAbs(correlation)) THEN "warning"
    ELSE "broken"

_assess_health(correlation, volatility) ==
    IF RLt(volatility_limit, volatility) THEN "warning"
    ELSE IF RLe(healthy_threshold, RAbs(correlation)) THEN "healthy"
    ELSE IF RLe(critical_breakdown, RAbs(correlation)) THEN "warning"
    ELSE IF RLe(RMul(critical_breakdown, <<3, 4>>), RAbs(correlation)) THEN "critical"
    ELSE "broken"

\* pairs of check_correlation_health, in the order they are checked
CorrelationPairs ==
    <<<<"US500", "USDJPY">>, <<"US500", "VIX">>, <<"USDJPY", "DXY">>, <<"US500", "US10Y">>>>

\* seq: the ordinal of the entry among all entries ever appended (its
\* timestamp)
CorrelationStatus(pair, correlation, volatility, seq) ==
    [instrument1 |-> pair[1], instrument2 |-> pair[2], correlation |-> correlation,
     volatility |-> volatility, health |-> _assess_health(correlation, volatility),
     seq |-> seq]

\* the statuses of one cycle; outcomes[i]: None when _check_pair_correlation
\* of the i-th pair returned None (its data could not be fetched), else the
\* correlation and volatility calculate_correlation gave
CycleStatuses(outcomes, first_seq) ==
    LET checked == SelectSeq(<<1, 2, 3, 4>>, LAMBDA i : outcomes[i] # None)
    IN  [k \in 1..Len(checked) |->
            CorrelationStatus(CorrelationPairs[checked[k]],
                              outcomes[checked[k]].correlation,
                              outcomes[checked[k]].volatility,
                              first_seq + k - 1)]

\* correlation_monitor.py 50-82
check_correlation_health(outcomes) ==
    /\ correlation_history' =
           KeepLast(correlation_history \o
                        CycleStatuses(outcomes, appended.correlation + 1),
                    history_limit)
    /\ appended' = [appended EXCEPT !.correlation =
                        @ + Len(CycleStatuses(outcomes, appended.correlation + 1))]
    /\ monitor_cycles' = monitor_cycles + 1
    /\ UNCHANGED <<margin_history, alert_history>>
    /\ UNCHANGED <<envVars, mainVars, signalVars, sizerVars, scanVars, callVars>>
    /\ UNCHANGED <<validatorVars, regimeVars, feedVars, brokerVars, faultVars, coreVars>>

IsCorePair(s) ==
    \/ s.instrument1 = "US500" /\ s.instrument2 = "USDJPY"
    \/ s.instrument1 = "USDJPY" /\ s.instrument2 = "US500"

\* correlation_monitor.py 152-163
is_correlation_healthy(history) ==
    LET recent_statuses == SelectSeq(KeepLast(history, 10), IsCorePair)
    IN  IF recent_statuses = <<>>
        THEN FALSE
        ELSE \A i \in 1..Len(recent_statuses) :
                 recent_statuses[i].health \in {"healthy", "warning"}

MaxCycles ==
    4

PairData(correlation, volatility) ==
    [correlation |-> correlation, volatility |-> volatility]

\* one cycle: the core pair fails, is HEALTHY or is CRITICAL; the three other
\* pairs fail together or are HEALTHY together
MonitorOutcomes ==
    {<<core, other, other, other>> : core \in {None, PairData(<<4, 5>>, <<1, 10>>), PairData(<<7, 20>>, <<1, 10>>)}, other \in {None, PairData(<<4, 5>>, <<1, 10>>)}}

CheckCorrelationHealthCall ==
    /\ monitor_cycles < MaxCycles
    /\ \E outcomes \in MonitorOutcomes : check_correlation_health(outcomes)

NextMonitor ==
    CheckCorrelationHealthCall

SpecMonitor ==
    InitScan /\ [][NextMonitor]_vars

\* _assess_health applied to correlations on and next to the three cut
\* points, of both signs, at and below the volatility limit
MaxAssessCalls ==
    2

AssessCorrelations ==
    {One, <<13, 20>>, <<16, 25>>, <<2, 5>>, <<39, 100>>, <<3, 10>>, <<29, 100>>, Zero, <<-13, 20>>, <<-2, 5>>, <<-3, 10>>, <<-29, 100>>}

AssessVolatilities ==
    {<<1, 10>>, volatility_limit}

\* a cycle in which only the core pair can be checked
AssessCorePair ==
    /\ monitor_cycles < MaxAssessCalls
    /\ \E correlation \in AssessCorrelations, volatility \in AssessVolatilities :
           check_correlation_health(<<PairData(correlation, volatility), None, None, None>>)

NextAssess ==
    AssessCorePair

SpecAssess ==
    InitScan /\ [][NextAssess]_vars

(***************************************************************************)
(* The three bounded histories after a long uptime                         *)
(***************************************************************************)
\* the entries a history holds when the observation starts: none, or those
\* of a long run that has not reached the limit yet
PrefilledLength ==
    997

MaxAppends ==
    4

Prefilled(n, entry(_)) ==
    [i \in 1..n |-> entry(i)]

PrefilledCorrelation(i) ==
    CorrelationStatus(CorrelationPairs[((i - 1) % 4) + 1], <<4, 5>>, <<1, 10>>, i)

\* the MarginStatus stored by check_margin_safety, with its ordinal
MarginEntry(account_summary, seq) ==
    [level |-> check_margin_safety(account_summary).level, seq |-> seq]

PrefilledMargin(i) ==
    MarginEntry(Account(0), i)

\* the AlertMessage stored by publish, with its ordinal
AlertEntry(alert, seq) ==
    [severity |-> alert.severity, header |-> alert.header, seq |-> seq]

PrefilledAlert(i) ==
    AlertEntry(Alert("P3", "STATUS", FALSE), i)

InitHistory ==
    /\ InitComponents
    /\ FixtureGauges
    /\ config = DefaultConfig
    /\ now = 600
    /\ \E c \in {0, PrefilledLength}, m \in {0, PrefilledLength}, a \in {0, PrefilledLength} :
           /\ correlation_history = Prefilled(c, PrefilledCorrelation)
           /\ margin_history = Prefilled(m, PrefilledMargin)
           /\ alert_history = Prefilled(a, PrefilledAlert)
           /\ appended = [correlation |-> c, margin |-> m, alert |-> a]

\* the entries appended since the observation started
AppendedSinceInit(n) ==
    IF n >= PrefilledLength THEN n - PrefilledLength ELSE n

HistoryFrame ==
    /\ UNCHANGED <<envVars, mainVars, signalVars, sizerVars, scanVars, callVars>>
    /\ UNCHANGED <<validatorVars, regimeVars, feedVars, brokerVars, faultVars, coreVars>>

\* a monitoring cycle in which every pair is checked, or none can be
MonitoringCycle ==
    /\ monitor_cycles < MaxCycles
    /\ \E data \in {None, PairData(<<4, 5>>, <<1, 10>>)} :
           check_correlation_health(<<data, data, data, data>>)

\* liquidation_guard.py 134-137: check_margin_safety stores its status
CheckMarginStored ==
    /\ AppendedSinceInit(appended.margin) < MaxAppends
    /\ margin_history' =
           KeepLast(Append(margin_history, MarginEntry(Account(0), appended.margin + 1)),
                    history_limit)
    /\ appended' = [appended EXCEPT !.margin = @ + 1]
    /\ UNCHANGED <<correlation_history, alert_history, monitor_cycles>>
    /\ HistoryFrame

\* alert_publisher.py 208-211: publish stores the alert
PublishStored ==
    /\ AppendedSinceInit(appended.alert) < MaxAppends
    /\ \E alert \in {Alert("P3", "STATUS", FALSE)} :
           alert_history' =
               KeepLast(Append(alert_history, AlertEntry(alert, appended.alert + 1)),
                        history_limit)
    /\ appended' = [appended EXCEPT !.alert = @ + 1]
    /\ UNCHANGED <<correlation_history, margin_history, monitor_cycles>>
    /\ HistoryFrame

NextHistory ==
    \/ MonitoringCycle
    \/ CheckMarginStored
    \/ PublishStored

SpecHistory ==
    InitHistory /\ [][NextHistory]_vars

(***************************************************************************)
(* Core divergence check (core/divergence_detector.py):                    *)
(* _check_spx_usdjpy_divergence on series of 30 closes.  Prices are        *)
(* integers (US500 in points, USDJPY in hundredths).                       *)
(***************************************************************************)
\* closes.min() / closes.max()
SeriesMin(closes) ==
    CHOOSE x \in {closes[i] : i \in 1..Len(closes)} :
        \A i \in 1..Len(closes) : x <= closes[i]

SeriesMax(closes) ==
    CHOOSE x \in {closes[i] : i \in 1..Len(closes)} :
        \A i \in 1..Len(closes) : x >= closes[i]

\* range(period, len(closes) - period), as positions counted from 1
FractalRange(closes, period) ==
    SelectSeq([i \in 1..Len(closes) |-> i],
              LAMBDA i : i >= period + 1 /\ i <= Len(closes) - period)

\* divergence_detector.py 246-264
_find_fractal_lows(closes, period) ==
    LET is_low(i) == \A j \in 1..period :
                         closes[i] < closes[i - j] /\ closes[i] < closes[i + j]
        at == SelectSeq(FractalRange(closes, period), is_low)
    IN  IF at = <<>>
        THEN <<SeriesMin(closes)>>
        ELSE [k \in 1..Len(at) |-> closes[at[k]]]

\* divergence_detector.py 266-284
_find_fractal_highs(closes, period) ==
    LET is_high(i) == \A j \in 1..period :
                          closes[i] > closes[i - j] /\ closes[i] > closes[i + j]
        at == SelectSeq(FractalRange(closes, period), is_high)
    IN  IF at = <<>>
        THEN <<SeriesMax(closes)>>
        ELSE [k \in 1..Len(at) |-> closes[at[k]]]

\* divergence_detector.py 286-292
_calculate_divergence_strength(magnitude, correlation) ==
    LET magnitude_score == RMin(One, RDiv(magnitude, <<1, 100>>))
        correlation_score == RMax(<<3, 10>>, RMin(One, RDiv(correlation, <<7, 10>>)))
    IN  RAdd(RMul(magnitude_score, <<6, 10>>), RMul(correlation_score, <<4, 10>>))

\* s[-1] and s[-2]
Last(s) ==
    s[Len(s)]

Previous(s) ==
    s[Len(s) - 1]

\* divergence_detector.py 158-178: the bullish check on the fractal lows
BullishCandidate(spx_lows, usdjpy_lows, vix, corr) ==
    IF /\ Last(spx_lows) * 10000 < Previous(spx_lows) * 9995
       /\ Last(usdjpy_lows) * 10000 > Previous(usdjpy_lows) * 10002
       /\ Last(vix) < vix[1]
    THEN Divergence("bullish", "US500",
             _calculate_divergence_strength(
                 RAbs(<<Previous(spx_lows) - Last(spx_lows), Previous(spx_lows)>>), corr))
    ELSE None

\* divergence_detector.py 180-203: the bearish check on the fractal highs
BearishCandidate(spx_highs, usdjpy_highs, vix, corr) ==
    IF Len(spx_highs) < 2 \/ Len(usdjpy_highs) < 2
    THEN None
    ELSE IF /\ Last(spx_highs) * 10000 > Previous(spx_highs) * 10005
            /\ Last(usdjpy_highs) * 10000 < Previous(usdjpy_highs) * 9998
            /\ Last(vix) > vix[1]
    THEN Divergence("bearish", "US500",
             _calculate_divergence_strength(
                 RAbs(<<Last(spx_highs) - Previous(spx_highs), Previous(spx_highs)>>), corr))
    ELSE None

\* fault: too few fractal lows only skip the bullish check
_check_spx_usdjpy_divergence_lows_optional(spx, usdjpy, vix, corr) ==
    LET spx_lows == _find_fractal_lows(spx, 5)
        usdjpy_lows == _find_fractal_lows(usdjpy, 5)
        bullish == IF Len(spx_lows) < 2 \/ Len(usdjpy_lows) < 2
                   THEN None
                   ELSE BullishCandidate(spx_lows, usdjpy_lows, vix, corr)
    IN  IF bullish # None
        THEN bullish
        ELSE BearishCandidate(_find_fractal_highs(spx, 5),
                              _find_fractal_highs(usdjpy, 5), vix, corr)

\* divergence_detector.py 140-209; spx, usdjpy: the 30 closes, vix: the 10
\* closes, corr: what calculate_correlation returned
_check_spx_usdjpy_divergence(spx, usdjpy, vix, corr) ==
    LET spx_lows == _find_fractal_lows(spx, 5)
        usdjpy_lows == _find_fractal_lows(usdjpy, 5)
    IN  IF Len(spx_lows) < 2 \/ Len(usdjpy_lows) < 2
        THEN None
        ELSE IF BullishCandidate(spx_lows, usdjpy_lows, vix, corr) # None
        THEN BullishCandidate(spx_lows, usdjpy_lows, vix, corr)
        ELSE BearishCandidate(_find_fractal_highs(spx, 5),
                              _find_fractal_highs(usdjpy, 5), vix, corr)

\* a series of closes that runs in straight legs through the given turning
\* points <<position, close>>, the first at position 1
Leg(turns, i) ==
    CHOOSE k \in 1..(Len(turns) - 1) : turns[k][1] <= i /\ i <= turns[k + 1][1]

Closes(turns) ==
    [i \in 1..turns[Len(turns)][1] |->
        LET a == turns[Leg(turns, i)]
            b == turns[Leg(turns, i) + 1]
        IN  a[2] + ((b[2] - a[2]) * (i - a[1])) \div (b[1] - a[1])]

\* US500: two lows and two highs, each new; a high, a low, a new high and a
\* long fall; a steady rise; two equal lows with a new high; two lows and
\* two highs, neither new; a single dip
SpxSeries ==
    {Closes(<<<<1, 4520>>, <<6, 4500>>, <<11, 4520>>, <<16, 4490>>, <<21, 4530>>, <<30, 4512>>>>),
     Closes(<<<<1, 4500>>, <<6, 4520>>, <<11, 4500>>, <<16, 4530>>, <<30, 4502>>>>),
     Closes(<<<<1, 4500>>, <<30, 4529>>>>),
     Closes(<<<<1, 4520>>, <<6, 4500>>, <<11, 4520>>, <<16, 4500>>, <<21, 4530>>, <<30, 4512>>>>),
     Closes(<<<<1, 4520>>, <<6, 4500>>, <<11, 4520>>, <<16, 4500>>, <<21, 4520>>, <<30, 4502>>>>),
     Closes(<<<<1, 4528>>, <<15, 4500>>, <<30, 4530>>>>)}

\* USDJPY: a higher low and a lower high; a high, a low, a lower high and a
\* long fall; a steady fall; a lower low and a higher high; one dip
UsdjpySeries ==
    {Closes(<<<<1, 15020>>, <<6, 15000>>, <<11, 15030>>, <<16, 15010>>, <<21, 15020>>, <<30, 15011>>>>),
     Closes(<<<<1, 15010>>, <<6, 15030>>, <<11, 15010>>, <<16, 15020>>, <<30, 14992>>>>),
     Closes(<<<<1, 15029>>, <<30, 15000>>>>),
     Closes(<<<<1, 15020>>, <<6, 15000>>, <<11, 15020>>, <<16, 14990>>, <<21, 15030>>, <<30, 15012>>>>),
     Closes(<<<<1, 15028>>, <<15, 15000>>, <<30, 15030>>>>)}

\* VIX: declining, rising
VixSeries ==
    {Closes(<<<<1, 20>>, <<10, 11>>>>), Closes(<<<<1, 11>>, <<10, 20>>>>)}

CoreCorrelations ==
    {<<4, 5>>, <<1, 5>>}

CheckCoreCall ==
    /\ \E spx \in SpxSeries, usdjpy \in UsdjpySeries, vix \in VixSeries, corr \in CoreCorrelations :
           /\ core_args' = [spx |-> spx, usdjpy |-> usdjpy, vix |-> vix, corr |-> corr]
           /\ core_result' = _check_spx_usdjpy_divergence(spx, usdjpy, vix, corr)
    /\ UNCHANGED <<envVars, mainVars, signalVars, sizerVars, scanVars, callVars>>
    /\ UNCHANGED <<validatorVars, regimeVars, feedVars, brokerVars, faultVars, historyVars>>

NextCore ==
    CheckCoreCall

SpecCore ==
    InitScan /\ [][NextCore]_vars

(***************************************************************************)
(* Properties                                                              *)
(***************************************************************************)
\* the step has been taken in the current iteration
InSteps(step) ==
    \E i \in 1..Len(steps) : steps[i] = step

\* in the current iteration every occurrence of step b comes after a step a
Before(a, b) ==
    \A i \in 1..Len(steps) :
        steps[i] = b => \E j \in 1..(i - 1) : steps[j] = a

\* C1: the execution step is reached for a signal only if request_confirmation
\* returned confirmed = true for that same signal earlier in the same
\* iteration; a NO_TRADE signal never reaches confirmation, sizing or execution.
C1_ExecutionOnlyAfterConfirmation ==
    /\ InSteps("execute") =>
           /\ Before("confirm", "execute")
           /\ confirmation # None
           /\ confirmation.confirmed
           /\ confirmation.trade_id = signal.id
    /\ (signal # None /\ signal.signal_type = "no_trade") =>
           /\ pc \notin {"process", "allow", "confirm", "confirming", "size", "execute"}
           /\ ~InSteps("confirm")
           /\ ~InSteps("size")
           /\ ~InSteps("execute")

\* a manually confirmed signal has reached the execution step
C1_Witness ==
    /\ InSteps("execute")
    /\ config.require_manual_confirmation
    /\ confirmation # None
    /\ confirmation.confirmed

C4_TimeoutResolvesToNotConfirmed ==
    (/\ vpc = "done"
     /\ config.require_manual_confirmation
     /\ elapsed >= config.confirmation_timeout_seconds
     /\ trade_id \notin DOMAIN confirmations)
        => /\ response.trade_id = trade_id
           /\ ~response.confirmed
           /\ response.reason = "Timeout or rejection"
           /\ trade_id \notin DOMAIN pending_trades

\* a pending request has timed out unanswered
C4_Witness ==
    /\ vpc = "done"
    /\ config.require_manual_confirmation
    /\ elapsed >= config.confirmation_timeout_seconds
    /\ trade_id \notin DOMAIN confirmations
    /\ ~response.confirmed

\* C5: should_allow_new_position answers true exactly when the margin check
\* it makes yields SAFE or MONITOR; when that check yields WARNING, DANGER or
\* CRITICAL the iteration has no confirmation, sizing or execution.
C5_NewPositionOnlySafeOrMonitor ==
    /\ allow_status # None =>
           /\ allow_status.level \in {"safe", "monitor"}
                  <=> (pc = "confirm" \/ InSteps("confirm"))
           /\ allow_status.level \in {"warning", "danger", "critical"} =>
                  /\ pc \notin {"confirm", "confirming", "size", "execute"}
                  /\ ~InSteps("confirm")
                  /\ ~InSteps("size")
                  /\ ~InSteps("execute")
    /\ InSteps("confirm") => allow_status # None

\* the check inside should_allow_new_position has yielded WARNING
C5_Witness ==
    /\ allow_status # None
    /\ allow_status.level = "warning"
    /\ pc = "monitor"

\* C6: whenever the execution step is reached, the margin level of the
\* account at that moment is SAFE or MONITOR.
C6_ExecutionAtSafeMargin ==
    InSteps("execute") => exec_level \in {"safe", "monitor"}

\* C9: the risk amounts of the trades that reached the execution step sum to
\* at most equity * max_daily_risk_percent / 100.
C9_ExecutedRiskWithinDailyCap ==
    RLe(risk_executed, RMul(R(100000), RDiv(max_daily_risk_percent, R(100))))

\* the regime labels of the previous signal and of the current call form a
\* significant transition
SignificantShift ==
    /\ prev_signal # None
    /\ signal_args # None
    /\ \/ <<prev_signal.regime.regime_type, signal_args.regime.regime_type>>
              \in significant_shifts
       \/ <<signal_args.regime.regime_type, prev_signal.regime.regime_type>>
              \in significant_shifts

\* C7: when the previous call's signal carried one regime label of a
\* significant transition and the current regime label is the other one,
\* generate_signal returns CLOSE on ALL with priority P0 and confidence 0.95.
C7_RegimeShiftCloses ==
    SignificantShift =>
        /\ signal.signal_type = "close"
        /\ signal.instrument = "ALL"
        /\ signal.priority = "P0"
        /\ signal.confidence = <<19, 20>>

\* the conditions of P1 and P2 on the engine results of the current call
DivergenceCondition ==
    /\ signal_args.divergences # <<>>
    /\ signal_args.correlation_healthy
    /\ \E i \in 1..Len(signal_args.divergences) :
           RLt(<<65, 100>>, signal_args.divergences[i].confidence)

StrongRegimeCondition ==
    /\ signal_args.regime.regime_type \in {"strong_risk_on", "strong_risk_off"}
    /\ signal_args.correlation_healthy
    /\ RLt(<<7, 10>>, signal_args.regime.confidence)

\* C8: generate_signal returns the signal of the first condition that holds
\* in the order P0 (regime shift), P1 (divergence), P2 (strong regime), and
\* NO_TRADE (confidence 0, multiplier 0, the regime snapshot) exactly when
\* none of them holds.
C8_FirstMatchWins ==
    signal_args # None =>
        /\ SignificantShift => signal.priority = "P0"
        /\ (~SignificantShift /\ DivergenceCondition) => signal.priority = "P1"
        /\ (~SignificantShift /\ ~DivergenceCondition /\ StrongRegimeCondition)
               => signal.priority = "P2"
        /\ (~SignificantShift /\ ~DivergenceCondition /\ ~StrongRegimeCondition)
               <=> signal.signal_type = "no_trade"
        /\ signal.signal_type = "no_trade" =>
               /\ signal.confidence = Zero
               /\ signal.position_size_multiplier = Zero
               /\ signal.regime = signal_args.regime

\* test_basic_position_sizing / test_daily_risk_limit
BasicScenario ==
    [account_equity |-> R(100000), instrument |-> "US500",
     entry_price |-> R(4500), stop_loss_price |-> R(4488),
     signal_confidence |-> <<3, 4>>, regime_score |-> R(2),
     position_size_multiplier |-> One]

\* C10: with today_risk_used = 2.8 against the 3.0% cap on an equity of
\* 100000, the basic sizing scenario returns a risk_amount of at most 200.
C10_DailyCapScenario ==
    (/\ sizing # None
     /\ sizing.today_used = <<14, 5>>
     /\ sizing.active = {}
     /\ sizing.args = BasicScenario)
        => RLe(sizing.result.risk_amount, R(200))

\* losses in today_losses recorded less than 60 minutes before the reading t
RecentLosses(t) ==
    Cardinality({i \in 1..Len(today_losses) : t - today_losses[i].timestamp < 60})

\* a step that calls request_confirmation
RequestStep ==
    vpc = "idle" /\ vpc' # "idle"

\* the call of this step was rejected by the readiness check
RejectedNotReady ==
    /\ vpc' = "done"
    /\ ~response'.confirmed
    /\ response'.reason = "Trader not ready"

\* C11: with at least 3 losses recorded within the trailing 60 minutes,
\* request_confirmation returns confirmed = false with the readiness reason,
\* publishes no alert that requires acknowledgment and does not register the
\* trade as pending.
C11_CoolDownRejects ==
    [][(RequestStep /\ RecentLosses(now') >= 3) =>
           /\ RejectedNotReady
           /\ pending_trades' = pending_trades
           /\ \A i \in 1..Len(published') : ~published'[i].requires_acknowledgment]_vars

\* a request has been rejected after three recent losses
C11_Witness ==
    /\ vpc = "done"
    /\ elapsed = 0
    /\ response.reason = "Trader not ready"
    /\ RecentLosses(now) >= 3
    /\ published # <<>>
    /\ pending_trades = <<>>

\* C12: in the low-liquidity window (00:00 to 05:00 UTC) the readiness check
\* rejects the request whatever the daily loss is; a request is let through
\* only when neither rejection condition (3 recent losses, low-liquidity
\* hour) holds.
C12_LowLiquidityRejects ==
    [][/\ (RequestStep /\ now' \div 60 < 5) => RejectedNotReady
       /\ (RequestStep /\ ~RejectedNotReady) =>
              (RecentLosses(now') < 3 /\ now' \div 60 >= 5)]_vars

\* C13: if confirm_trade(id, true) is called while the trade id is pending
\* (registered, timeout not yet elapsed, the last second included),
\* request_confirmation for that id returns confirmed = true.
C13_ConfirmWhilePendingConfirms ==
    (/\ vpc = "done"
     /\ confirm_seen
     /\ trade_id \in DOMAIN confirmations
     /\ confirmations[trade_id])
        => response.confirmed

\* C14: confirm_trade for a trade id that is not pending leaves the
\* validator's state as it was: the recorded confirmations change only for
\* ids that are pending at the call, and pending trades and loss statistics
\* are not touched.
C14_ConfirmNotPendingIsNoOp ==
    [][/\ \A id \in DOMAIN confirmations' :
              (IF id \in DOMAIN confirmations
               THEN confirmations'[id] # confirmations[id]
               ELSE TRUE)
                  => id \in DOMAIN pending_trades
       /\ confirmations' # confirmations =>
              UNCHANGED <<pending_trades, today_losses, today_loss_amount>>]_vars

\* C15: once an outcome has been recorded for an issued trade id, no later
\* confirm_trade call changes the recorded outcome.
C15_RecordedOutcomeIsTerminal ==
    [][\A id \in DOMAIN confirmations :
           id >= 1 => (id \in DOMAIN confirmations'
                       /\ confirmations'[id] = confirmations[id])]_vars

\* the ladder as stated, on equity and margin_used
LadderLevel(equity, margin_used) ==
    IF margin_used = Zero THEN "safe"
    ELSE LET ratio == RDiv(equity, margin_used)
         IN  CASE RLt(ratio, <<5, 4>>) -> "critical"
               [] RLe(<<5, 4>>, ratio) /\ RLt(ratio, <<3, 2>>) -> "danger"
               [] RLe(<<3, 2>>, ratio) /\ RLt(ratio, <<7, 4>>) -> "warning"
               [] RLe(<<7, 4>>, ratio) /\ RLt(ratio, <<5, 2>>) -> "monitor"
               [] RLe(<<5, 2>>, ratio) -> "safe"

LadderAction(level) ==
    [critical |-> "LIQUIDATE_NOW", danger |-> "IMMEDIATE_REDUCTION",
     warning |-> "STOP_NEW_ENTRIES", monitor |-> "MONITOR",
     safe |-> "NONE"][level]

LadderHolds(status) ==
    /\ status.level = LadderLevel(status.equity, status.margin_used)
    /\ status.action_required = LadderAction(status.level)
    /\ status.margin_ratio = <<124999, 100000>> => status.level = "critical"
    /\ status.margin_ratio = <<5, 4>> => status.level = "danger"
    /\ status.margin_ratio = <<7, 4>> => status.level = "monitor"
    /\ status.margin_used = Zero => status.margin_ratio = Inf

\* C16: check_margin_safety maps the margin ratio (equity / margin_used,
\* +infinity when margin_used is 0) to a level by strict < comparisons:
\* below 1.25 CRITICAL, [1.25, 1.5) DANGER, [1.5, 1.75) WARNING,
\* [1.75, 2.5) MONITOR, from 2.5 on (and with no margin used) SAFE; 1.24999
\* is CRITICAL, exactly 1.25 DANGER, exactly 1.75 MONITOR; each level has
\* its own action code.
C16_MarginLadder ==
    /\ margin_status # None => LadderHolds(margin_status)
    /\ allow_status # None => LadderHolds(allow_status.status)

C16_Witness ==
    /\ margin_status # None
    /\ margin_status.margin_ratio = <<5, 4>>
    /\ margin_status.level = "danger"
    /\ margin_status.action_required = "IMMEDIATE_REDUCTION"
    /\ allow_status # None
    /\ allow_status.status.margin_ratio = <<7, 4>>
    /\ allow_status.status.level = "monitor"
    /\ allow_status.allowed

\* C17: when the regime of the cycle is UNRELIABLE or DATA_ERROR,
\* generate_signal returns neither a BUY nor a SELL signal, whatever the
\* divergences and the correlation health.
C17_SentinelRegimeNotTradable ==
    (/\ signal_args # None
     /\ signal_args.regime.regime_type \in {"unreliable", "data_error"})
        => signal.signal_type \notin {"buy", "sell"}

\* the divergences of the call whose confidence none of the others exceeds
HighestConfidence(divergences) ==
    {divergences[k] : k \in {i \in 1..Len(divergences) :
        \A j \in 1..Len(divergences) :
            RLe(divergences[j].confidence, divergences[i].confidence)}}

\* BULLISH with a risk-on regime, BEARISH with a risk-off regime
DirectionAgrees(divergence, regime) ==
    \/ /\ divergence.type = "bullish"
       /\ regime.regime_type \in {"weak_risk_on", "strong_risk_on"}
    \/ /\ divergence.type = "bearish"
       /\ regime.regime_type \in {"weak_risk_off", "strong_risk_off"}

\* C19: a P1 signal is returned only when correlation is healthy and the
\* highest-confidence divergence has confidence above 0.65; its confidence
\* is that divergence's confidence, times 1.2 exactly when the divergence
\* direction agrees with the regime direction, capped at 0.95, hence in
\* (0.65, 0.95]; it is BUY for BULLISH, SELL for BEARISH, and carries the
\* configured divergence penalty as size multiplier.
C19_DivergenceSignal ==
    (signal_args # None /\ signal.priority = "P1") =>
        /\ signal_args.correlation_healthy
        /\ signal_args.divergences # <<>>
        /\ signal.divergence \in HighestConfidence(signal_args.divergences)
        /\ RLt(<<65, 100>>, signal.divergence.confidence)
        /\ signal.confidence =
               RMin(<<19, 20>>,
                    IF DirectionAgrees(signal.divergence, signal_args.regime)
                    THEN RMul(signal.divergence.confidence, <<6, 5>>)
                    ELSE signal.divergence.confidence)
        /\ RLt(<<65, 100>>, signal.confidence)
        /\ RLe(signal.confidence, <<95, 100>>)
        /\ signal.divergence.type = "bullish" => signal.signal_type = "buy"
        /\ signal.divergence.type = "bearish" => signal.signal_type = "sell"
        /\ signal.position_size_multiplier = divergence_penalty

C19_Witness ==
    /\ signal_args # None
    /\ signal.priority = "P1"
    /\ signal.signal_type = "sell"
    /\ signal.divergence.confidence = <<4, 5>>
    /\ signal.confidence = <<4, 5>>
    /\ prev_signal # None
    /\ prev_signal.priority = "P1"
    /\ prev_signal.signal_type = "buy"
    /\ prev_signal.confidence = <<19, 20>>

\* C20: a P2 signal is returned only if the regime is STRONG_RISK_ON or
\* STRONG_RISK_OFF, correlation is healthy and the regime confidence is above
\* 0.70; it is BUY for STRONG_RISK_ON and SELL for STRONG_RISK_OFF, carries
\* size multiplier 0.8 and the regime's confidence, and is also the result
\* when a divergence exists whose best confidence is at most 0.65.
C20_RegimeSignal ==
    signal_args # None =>
        /\ signal.priority = "P2" =>
               /\ StrongRegimeCondition
               /\ signal_args.regime.regime_type = "strong_risk_on"
                      => signal.signal_type = "buy"
               /\ signal_args.regime.regime_type = "strong_risk_off"
                      => signal.signal_type = "sell"
               /\ signal.position_size_multiplier = <<4, 5>>
               /\ signal.confidence = signal_args.regime.confidence
        /\ (/\ StrongRegimeCondition
            /\ ~SignificantShift
            /\ signal_args.divergences # <<>>
            /\ \A d \in HighestConfidence(signal_args.divergences) :
                   RLe(d.confidence, <<65, 100>>))
               => signal.priority = "P2"

C20_Witness ==
    /\ signal_args # None
    /\ signal.priority = "P2"
    /\ signal.signal_type = "sell"
    /\ signal_args.divergences # <<>>
    /\ prev_signal # None
    /\ prev_signal.priority = "P2"
    /\ prev_signal.signal_type = "buy"
    /\ prev_signal.position_size_multiplier = <<4, 5>>

\* the entries of the scan's log that hold a raw candidate
RawCandidates ==
    {j \in 1..Len(scan_log) : scan_log[j].raw \notin {None, Raised}}

AcceptedByAll(j) ==
    \A f \in 1..NumFilters : scan_log[j].outcomes[f] = "accept"

\* C18: scan_divergences returns a raw candidate only if each of the three
\* filters accepted it (a filter that returns false or raises rejects); with
\* one filter that rejects every candidate the result is empty; and a
\* candidate that all filters accepted is in the result whatever failed while
\* another instrument was checked.
C18_ScanFailClosed ==
    /\ \A i \in 1..Len(signals) :
           \E j \in RawCandidates :
               scan_log[j].raw = signals[i] /\ AcceptedByAll(j)
    /\ (\E f \in 1..NumFilters :
            \A j \in RawCandidates : scan_log[j].outcomes[f] # "accept")
           => signals = <<>>
    /\ \A j \in RawCandidates :
           AcceptedByAll(j) => \E i \in 1..Len(signals) : signals[i] = scan_log[j].raw

C18_Witness ==
    /\ scan_pos = 5
    /\ Len(signals) = 2
    /\ \E k \in 1..Len(scan_log) : scan_log[k].raw = Raised
    /\ \E j \in RawCandidates : scan_log[j].outcomes[2] = "raise"

InReasoning(result, note) ==
    \E i \in 1..Len(result.reasoning) : result.reasoning[i] = note

\* C21: calculate_position_size with stop_loss_price equal to entry_price
\* returns position size, risk amount, margin and leverage 0 with a reasoning
\* that names the zero stop, whatever the other arguments and the sizer's
\* state, and leaves today_risk_used and the divergence flags as they were.
C21_ZeroStopZeroPosition ==
    [][(/\ sizing' # None
        /\ sizing'.args.stop_loss_price = sizing'.args.entry_price)
           => /\ sizing'.result.position_size = Zero
              /\ sizing'.result.risk_amount = Zero
              /\ sizing'.result.margin_required = Zero
              /\ sizing'.result.leverage_used = Zero
              /\ InReasoning(sizing'.result, "Stop distance is zero")
              /\ sizing' # sizing =>
                     UNCHANGED <<today_risk_used, active_divergences>>]_vars

C21_Witness ==
    /\ sizing # None
    /\ sizing.args.stop_loss_price = sizing.args.entry_price
    /\ sizing.args.entry_price = R(4500)
    /\ sizing.result.position_size = Zero
    /\ sizing.today_used = R(1400)
    /\ today_risk_used = R(1400)
    /\ "US500" \in sizing.active

\* equity x max_per_trade_risk_percent / 100
PerTradeCap(account_equity) ==
    RMul(account_equity, RDiv(max_per_trade_risk_percent, R(100)))

\* C22: with size multiplier and divergence penalty in [0, 1] the returned
\* risk_amount lies between 0 and equity x max_per_trade_risk_percent / 100;
\* in the scenario of the tests (equity 100000, entry 4500, stop 4488,
\* confidence 0.75, regime score 2.0, multiplier 1.0, per-trade risk 1.8%, a
\* sizer that has booked no risk yet) it is positive and at most 1800, and at
\* most 900 when the instrument is flagged with penalty 0.5.
C22_RiskAmountWithinPerTradeCap ==
    sizing # None =>
        /\ RLe(Zero, sizing.result.risk_amount)
        /\ RLe(sizing.result.risk_amount, PerTradeCap(sizing.args.account_equity))
        /\ (sizing.args = BasicScenario /\ sizing.today_used = Zero) =>
               /\ RLt(Zero, sizing.result.risk_amount)
               /\ RLe(sizing.result.risk_amount, R(1800))
               /\ "US500" \in sizing.active =>
                      RLe(sizing.result.risk_amount, R(900))

C22_Witness ==
    /\ sizing # None
    /\ sizing.args = BasicScenario
    /\ sizing.today_used = Zero
    /\ "US500" \in sizing.active
    /\ RLt(Zero, sizing.result.risk_amount)
    /\ InReasoning(sizing.result, "Divergence penalty")

\* the latest sizing call repeated with another state or confidence
Resize(today_used, active, signal_confidence) ==
    calculate_position_size(today_used, active, sizing.args.account_equity,
                            sizing.args.instrument, sizing.args.entry_price,
                            sizing.args.stop_loss_price, signal_confidence,
                            sizing.args.regime_score,
                            sizing.args.position_size_multiplier)

NotLarger(other, result) ==
    /\ RLe(other.risk_amount, result.risk_amount)
    /\ RLe(other.position_size, result.position_size)

LowConfidences ==
    {<<1, 2>>, <<16, 25>>}

\* (a) the instrument becomes flagged, (c) more risk has been booked today
SizingNonIncreasing ==
    /\ NotLarger(Resize(sizing.today_used,
                        sizing.active \cup {sizing.args.instrument},
                        sizing.args.signal_confidence),
                 sizing.result)
    /\ \A more \in {R(200), R(1400), R(3000)} :
           NotLarger(Resize(RAdd(sizing.today_used, more), sizing.active,
                            sizing.args.signal_confidence),
                     sizing.result)
    /\ RLe(<<65, 100>>, sizing.args.signal_confidence) =>
           \A low \in LowConfidences :
               NotLarger(Resize(sizing.today_used, sizing.active, low),
                         sizing.result)

\* C23 as stated: risk_amount and position_size never increase when the
\* instrument becomes flagged, when the confidence drops from 0.65 or more to
\* below 0.65, or when today_risk_used grows; when the confidence drops the
\* risk_amount is strictly smaller whenever it was positive.
C23_SizingMonotone ==
    sizing # None =>
        /\ SizingNonIncreasing
        /\ (/\ RLe(<<65, 100>>, sizing.args.signal_confidence)
            /\ RLt(Zero, sizing.result.risk_amount)) =>
               \A low \in LowConfidences :
                   RLt(Resize(sizing.today_used, sizing.active, low).risk_amount,
                       sizing.result.risk_amount)

\* C23 as the code has it: the same, but when the confidence drops the
\* risk_amount is strictly smaller whenever it was positive and was cut by
\* neither the margin limit nor the daily risk cap.
C23_SizingMonotoneUnlessCapped ==
    sizing # None =>
        /\ SizingNonIncreasing
        /\ (/\ RLe(<<65, 100>>, sizing.args.signal_confidence)
            /\ RLt(Zero, sizing.result.risk_amount)
            /\ ~InReasoning(sizing.result, "Margin limit")
            /\ ~InReasoning(sizing.result, "Daily risk cap")) =>
               \A low \in LowConfidences :
                   RLt(Resize(sizing.today_used, sizing.active, low).risk_amount,
                       sizing.result.risk_amount)

C23_Witness ==
    /\ sizing # None
    /\ sizing.args.signal_confidence = <<3, 4>>
    /\ sizing.args.stop_loss_price = R(4488)
    /\ sizing.active = {}
    /\ sizing.today_used = Zero
    /\ RLt(Zero, sizing.result.risk_amount)
    /\ InReasoning(sizing.result, "Swap cost penalty")
    /\ ~InReasoning(Resize(Zero, {"US500"}, <<1, 2>>), "Swap cost penalty")

\* C24: every result of calculate_position_size has margin_required at most
\* 70% of the account equity and leverage_used at most max_leverage, also
\* after the swap-cost shrink and the daily-risk-cap scaling.
C24_MarginAndLeverageCapped ==
    sizing # None =>
        /\ RLe(sizing.result.margin_required,
               RMul(sizing.args.account_equity, <<7, 10>>))
        /\ RLe(sizing.result.leverage_used, max_leverage)

C24_Witness ==
    /\ sizing # None
    /\ InReasoning(sizing.result, "Swap cost penalty")
    /\ InReasoning(sizing.result, "Margin limit")
    /\ InReasoning(sizing.result, "Daily risk cap")
    /\ RLt(Zero, sizing.result.margin_required)
    /\ sizing.result.leverage_used = max_leverage

SentinelRegime(result) ==
    result.regime_type \in {"data_error", "unreliable"}

\* C25: analyze_regime returns a sentinel with score 0 and confidence 0
\* instead of raising: DATA_ERROR (status DATA_ERROR, a reason) when one of
\* the four history fetches raises, UNRELIABLE when all fetches succeed and
\* the correlation volatility exceeds the configured limit; in no other case
\* is the result a sentinel.
C25_SentinelRegimes ==
    regime_result # None =>
        /\ regime_args.failing # "none" =>
               /\ regime_result.regime_type = "data_error"
               /\ regime_result.status = "DATA_ERROR"
               /\ regime_result.reason # ""
        /\ (regime_args.failing = "none"
                /\ RLt(volatility_limit, regime_args.corr_vol)) =>
               regime_result.regime_type = "unreliable"
        /\ SentinelRegime(regime_result) =>
               /\ regime_result.score = Zero
               /\ regime_result.confidence = Zero
               /\ \/ regime_args.failing # "none"
                  \/ RLt(volatility_limit, regime_args.corr_vol)

C25_Witness ==
    /\ regime_result # None
    /\ regime_result.regime_type = "unreliable"
    /\ regime_args.corr_vol = <<1, 5>>
    /\ last_regime # None
    /\ last_regime.status = "OK"
    /\ last_regime.correlation_health = One

\* C26: the confidence of every RegimeClassification returned by
\* analyze_regime lies in [0, 1], for every core correlation in [-1, 1],
\* every correlation volatility up to the limit and every VIX level.
C26_ConfidenceInUnitInterval ==
    regime_result # None =>
        /\ RLe(Zero, regime_result.confidence)
        /\ RLe(regime_result.confidence, One)


\* C27: a data-feed or broker call that raises (get_history, get_quote,
\* get_account_summary, get_positions) never propagates out of
\* generate_signal or check_margin_safety and never ends the main loop: no
\* run stops on a fatal error caused by an upstream call
C27_UpstreamFailureContained ==
    fatal_error # "none" => running /\ pc # "stopped"

\* C29: over any sequence of iterations the core calls neither place_order
\* nor close_position, so the broker's orders and positions are left as
\* they were
C29_NoOrderExecuted ==
    broker_calls \cap {"place_order", "close_position", "cancel_order"} = {}

\* a confirmed trade went through the execution step and the broker was
\* only asked for the account and the positions
C29_Witness ==
    /\ steps # <<>>
    /\ steps[Len(steps)] = "execute"
    /\ confirmation # None
    /\ confirmation.confirmed
    /\ broker_calls = {"get_account_summary", "get_positions"}


\* C28: in live mode the connection bootstrap makes at most 3 attempts, each
\* one after a full backoff of 5 seconds, and once all of them have failed
\* the system holds the mock feed and not a live feed that is not connected
C28_MockFeedAfterFailedBootstrap ==
    /\ attempt <= max_attempts
    /\ connect_pc = "attempt" /\ attempt > 0 => backoff = BackoffSeconds
    /\ connect_pc = "failed" => data_feed = "mock"


\* C30: a request_confirmation call that registered its trade as pending
\* returns, and it does so no later than confirmation_timeout_seconds after
\* the registration, whether or not a confirm_trade call arrives
C30_ConfirmationReturnsInTime ==
    /\ [](vpc \in {"wait_start", "waiting"} =>
              elapsed < config.confirmation_timeout_seconds)
    /\ [](vpc = "done" => elapsed <= config.confirmation_timeout_seconds)
    /\ (vpc \in {"wait_start", "waiting"}) ~> (vpc = "done")

\* a live-mode wait that nobody answered has ended at the timeout
C30_Witness ==
    /\ vpc = "done"
    /\ config.mode = "live"
    /\ config.require_manual_confirmation
    /\ config.confirmation_timeout_seconds = MaxTimeout
    /\ elapsed = MaxTimeout
    /\ trade_id \notin DOMAIN confirmations
    /\ ~response.confirmed


\* the alert of step 2 of request_confirmation, not a status alert of the
\* readiness check
IsTradeAlert(a) ==
    a.header \in {"DIVERGENCE", "Signal - Regime Based"}

TradeAlertsPublished ==
    Cardinality({i \in 1..Len(published) : IsTradeAlert(published[i])})

\* the terminal state of the confirmation state machine a response stands
\* for; a rejection by the operator gives the same response as a timeout
TerminalState(resp) ==
    IF resp.reason = "Trader not ready" THEN "REJECTED"
    ELSE IF resp.reason = "Auto-confirmed" THEN "AUTO_CONFIRMED"
    ELSE IF resp.reason = "Manual confirmation" THEN "CONFIRMED"
    ELSE IF resp.reason = "Timeout or rejection" THEN "TIMED_OUT"
    ELSE "NONE"

\* the path of a request_confirmation call up to the way a pending trade
\* ends: readiness first, the trade alert once and last, auto-confirmation
\* without registration, registration only with manual confirmation
ConfirmationPath ==
    /\ vpc \in {"wait_start", "waiting"} =>
           /\ config.require_manual_confirmation
           /\ trade_id \in DOMAIN pending_trades
           /\ response = None
           /\ TradeAlertsPublished = 1
           /\ IsTradeAlert(published[Len(published)])
    /\ vpc = "done" =>
           /\ TerminalState(response) \in
                  {"REJECTED", "AUTO_CONFIRMED", "CONFIRMED", "TIMED_OUT"}
           /\ trade_id \notin DOMAIN pending_trades
           /\ IF TerminalState(response) = "REJECTED"
              THEN /\ ~response.confirmed
                   /\ TradeAlertsPublished = 0
                   /\ elapsed = 0
              ELSE /\ TradeAlertsPublished = 1
                   /\ IsTradeAlert(published[Len(published)])
           /\ TerminalState(response) = "AUTO_CONFIRMED" =>
                  /\ response.confirmed
                  /\ ~config.require_manual_confirmation
                  /\ elapsed = 0
           /\ TerminalState(response) \in {"CONFIRMED", "TIMED_OUT"} =>
                  /\ config.require_manual_confirmation
                  /\ response.confirmed <=> TerminalState(response) = "CONFIRMED"

\* the wait of a trade that ended not confirmed lasted the whole timeout
EndedByTimeout ==
    elapsed >= config.confirmation_timeout_seconds

\* the operator answered the trade with confirm_trade(id, False)
EndedByRejection ==
    /\ trade_id \in DOMAIN confirmations
    /\ ~confirmations[trade_id]

\* C31: a request_confirmation call checks readiness first; a failed check
\* ends REJECTED with no trade alert; otherwise the trade alert is published
\* exactly once, after the alerts of the readiness check and before
\* anything else, and the call either auto-confirms without ever being
\* pending (manual confirmation disabled) or is registered as pending and
\* ends CONFIRMED or TIMED_OUT
C31_ConfirmationStateMachine ==
    /\ ConfirmationPath
    /\ vpc = "done" /\ TerminalState(response) = "TIMED_OUT" => EndedByTimeout

\* C31 (amended): as above, and a pending trade ends CONFIRMED, TIMED_OUT
\* or, before the timeout, rejected by the operator, which gives the same
\* not-confirmed response as a timeout
C31_ConfirmationStateMachineWithRejection ==
    /\ ConfirmationPath
    /\ vpc = "done" /\ TerminalState(response) = "TIMED_OUT" =>
           EndedByTimeout \/ EndedByRejection

\* a pending trade, announced by one trade alert after the warning of the
\* readiness check, was rejected by the operator before the timeout
C31_Witness ==
    /\ vpc = "done"
    /\ TerminalState(response) = "TIMED_OUT"
    /\ EndedByRejection
    /\ ~EndedByTimeout
    /\ Len(published) = 2
    /\ published[1].header = "DAILY LOSS LIMIT APPROACHING"
    /\ TradeAlertsPublished = 1


\* the core-pair entries of the correlation history, oldest first
CoreEntries ==
    SelectSeq(correlation_history, IsCorePair)

\* C32: is_correlation_healthy is true exactly when the history holds a
\* core-pair entry and each of the last 10 core-pair entries is HEALTHY or
\* WARNING, however many entries of other pairs follow them
C32_HealthyIffLastTenCoreEntriesHealthy ==
    is_correlation_healthy(correlation_history) <=>
        /\ CoreEntries # <<>>
        /\ \A i \in 1..Len(KeepLast(CoreEntries, 10)) :
               KeepLast(CoreEntries, 10)[i].health \in {"healthy", "warning"}


\* a history holds the last min(n, 1000) of the n entries appended to it, in
\* the order they were appended
HoldsMostRecent(h, n) ==
    /\ Len(h) = IF n > history_limit THEN history_limit ELSE n
    /\ \A i \in 1..Len(h) : h[i].seq = n - Len(h) + i

\* C33: each of the three histories holds at most 1000 entries, and when
\* more were appended exactly the 1000 most recent ones in append order
C33_HistoriesKeepLastThousand ==
    /\ HoldsMostRecent(correlation_history, appended.correlation)
    /\ HoldsMostRecent(margin_history, appended.margin)
    /\ HoldsMostRecent(alert_history, appended.alert)

\* each history has received more than 1000 entries and dropped its oldest
C33_Witness ==
    /\ appended.correlation > history_limit
    /\ appended.margin > history_limit
    /\ appended.alert > history_limit
    /\ correlation_history[1].seq > 1
    /\ margin_history[1].seq = 2
    /\ alert_history[1].seq = 2


\* the ladder HEALTHY > WARNING > CRITICAL > BROKEN
HealthRung(health) ==
    CASE health = "healthy" -> 4
      [] health = "warning" -> 3
      [] health = "critical" -> 2
      [] health = "broken" -> 1

\* the rung the three cut points give to a correlation
RungByCutPoints(correlation) ==
    IF RLe(<<13, 20>>, RAbs(correlation)) THEN 4
    ELSE IF RLe(<<2, 5>>, RAbs(correlation)) THEN 3
    ELSE IF RLe(<<3, 10>>, RAbs(correlation)) THEN 2
    ELSE 1

\* C34: for a fixed volatility at or below the cap the health category is
\* monotonic in |correlation|, and the rungs change exactly at the healthy
\* threshold 0.65, the critical threshold 0.40 and 0.75 x 0.40 = 0.30
C34_HealthMonotonicInCorrelation ==
    \A i, j \in 1..Len(correlation_history) :
        LET a == correlation_history[i]
            b == correlation_history[j]
        IN  /\ RLe(a.volatility, volatility_limit) =>
                   HealthRung(a.health) = RungByCutPoints(a.correlation)
            /\ /\ a.volatility = b.volatility
               /\ RLe(a.volatility, volatility_limit)
               /\ RLe(RAbs(b.correlation), RAbs(a.correlation))
               => HealthRung(a.health) >= HealthRung(b.health)

\* two correlations on either side of the lowest cut point were assessed at
\* the same volatility
C34_Witness ==
    /\ Len(correlation_history) = 2
    /\ correlation_history[1].correlation = <<-3, 10>>
    /\ correlation_history[1].health = "critical"
    /\ correlation_history[2].correlation = <<29, 100>>
    /\ correlation_history[2].health = "broken"
    /\ correlation_history[1].volatility = volatility_limit
    /\ correlation_history[2].volatility = volatility_limit


\* what a recorded result does to the state of the next readiness check
RecordedResultFeedsReadiness(pnl, win, t) ==
    /\ _count_recent_losses(today_losses', t, 60) =
           _count_recent_losses(today_losses, t, 60) + (IF win THEN 0 ELSE 1)
    /\ Len(today_losses') = Len(today_losses) + (IF win THEN 0 ELSE 1)
    /\ today_loss_amount' =
           IF RLt(pnl, Zero) THEN RSub(today_loss_amount, pnl) ELSE today_loss_amount

\* nothing recorded is left: the check neither rejects for a cool-down nor
\* warns about the daily loss
NothingRecorded(losses, loss_amount) ==
    /\ losses = <<>>
    /\ loss_amount = Zero
    /\ \A t \in ValidatorTimes :
           /\ _check_trader_readiness(losses, loss_amount, t).alerts = <<>>
           /\ _check_trader_readiness(losses, loss_amount, t).ready <=> t \div 60 >= 5

\* C35: every record_trade_result with win=false adds one entry to the loss
\* count of the cool-down rule, every negative pnl adds its absolute value to
\* the daily loss amount, and after reset_daily_stats the loss list is empty
\* and the amount 0, so the next readiness check is neither rejected nor
\* warned because of an earlier record
C35_OutcomesFeedReadinessUntilReset ==
    [][/\ \A r \in TradeResults, t \in ValidatorTimes :
              record_trade_result(0, r[1], r[2], t) =>
                  RecordedResultFeedsReadiness(r[1], r[2], t)
       /\ reset_daily_stats =>
              NothingRecorded(today_losses', today_loss_amount')]_vars

\* three recorded losses have suspended trading: the request made after
\* them was rejected by the cool-down rule
C35_Witness ==
    /\ vpc = "done"
    /\ response.reason = "Trader not ready"
    /\ Len(published) = 1
    /\ published[1].header = "TRADING SUSPENDED"
    /\ Len(today_losses) = 3
    /\ today_loss_amount = <<13, 2>>


\* C36: pending_trades holds a trade id only while the request_confirmation
\* call for that id is suspended in its wait; whenever no call is in
\* progress, and on every exit path of a call, pending_trades is empty
C36_PendingOnlyWhileWaiting ==
    /\ vpc \in {"idle", "done"} => DOMAIN pending_trades = {}
    /\ vpc \in {"wait_start", "waiting"} => DOMAIN pending_trades = {trade_id}

\* no call is in progress after a call whose pending trade the operator
\* answered
C36_Witness ==
    /\ vpc = "idle"
    /\ next_id > 1
    /\ DOMAIN confirmations # {}
    /\ DOMAIN pending_trades = {}


\* the margin check of the current iteration returned DANGER or CRITICAL
MarginEmergency ==
    /\ margin_status # None
    /\ margin_status.level \in {"danger", "critical"}

\* C37: in an iteration whose margin check returns DANGER or CRITICAL
\* nothing else is done: no signal, no confirmation request, no position
\* size, no execution step; the loop is back at its head, from where the
\* next iteration and its margin check start
C37_MarginEmergencySkipsIteration ==
    MarginEmergency =>
        /\ pc \in {"start", "stopped"}
        /\ steps = <<"margin">>
        /\ signal = None
        /\ confirmation = None
        /\ position_result = None
        /\ exec_level = "none"
        /\ vpc = "idle"

\* a CRITICAL margin check in an iteration that follows an executed trade
C37_Witness ==
    /\ MarginEmergency
    /\ margin_status.level = "critical"
    /\ pc = "start"
    /\ running
    /\ RLt(Zero, risk_executed)


\* the latest core check ran on series with fewer than two fractal lows in
\* the US500 or the USDJPY series
TooFewFractalLows ==
    \/ Len(_find_fractal_lows(core_args.spx, 5)) < 2
    \/ Len(_find_fractal_lows(core_args.usdjpy, 5)) < 2

\* C38: the core-pair path returns no candidate whenever the US500 or the
\* USDJPY series has fewer than two fractal lows (the fallback to the series
\* minimum included), whatever the fractal highs are; a bearish core
\* divergence is reported only when both series have two fractal lows
C38_NoCoreCandidateWithoutTwoLows ==
    core_args # None =>
        /\ TooFewFractalLows => core_result = None
        /\ core_result # None /\ core_result.type = "bearish" => ~TooFewFractalLows

\* a bearish core divergence was reported for series with two fractal lows
\* each
C38_Witness ==
    /\ core_args # None
    /\ core_result # None
    /\ core_result.type = "bearish"
    /\ Len(_find_fractal_lows(core_args.spx, 5)) = 2
    /\ Len(_find_fractal_lows(core_args.usdjpy, 5)) = 2


\* the multiplier analyze_regime applies to the score in a session
SessionMultiplier(session) ==
    CASE session = "ASIAN" -> <<7, 5>>
      [] session \in {"US_ONLY", "US_LATE"} -> <<9, 10>>
      [] OTHER -> One

\* C39: in a non-sentinel result the label is the bucket of the weighted
\* score before the session multiplier and the reported score is the
\* multiplied one; where the multiplier is 1 the label is the bucket of the
\* reported score, and the label of a call does not depend on its session
C39_LabelFromUnadjustedScore ==
    (regime_result # None /\ regime_result.status = "OK") =>
        /\ regime_result.regime_type = _classify_score(RiskOnScore(regime_args))
        /\ regime_result.score =
               RMul(RiskOnScore(regime_args), SessionMultiplier(regime_result.session))
        /\ SessionMultiplier(regime_result.session) = One =>
               regime_result.regime_type = _classify_score(regime_result.score)
        /\ \A session \in SessionLabels :
               analyze_regime(regime_args, session).regime_type =
                   regime_result.regime_type

\* an ASIAN result labelled neutral whose reported score lies in the weak
\* risk-on bucket
C39_Witness ==
    /\ regime_result # None
    /\ regime_result.status = "OK"
    /\ regime_result.session = "ASIAN"
    /\ regime_result.regime_type = "neutral"
    /\ _classify_score(regime_result.score) = "weak_risk_on"

====
